---- MODULE Spec2Model ----
(***************************************************************************)
(* Model of the x402 payment verification and settlement engine            *)
(* (reputation-oracle/src/x402/MerchantExecutor.ts).                       *)
(*                                                                         *)
(* SpecVerify : verifyPayment in direct mode applied to every payload of   *)
(*              a bounded input space (the local verification algorithm).  *)
(* Spec       : the execution facade, one call in flight at a time, with   *)
(*              the facilitator and the chain client as environment.       *)
(* SpecLive, SpecHandler, SpecConcurrent, SpecConstruct, SpecPrice,        *)
(* SpecRepeat, SpecServer, SpecSettle : the same engine under fairness,    *)
(* behind the paid HTTP handlers, with concurrent calls, at construction,  *)
(* over the configured prices, with repeated verifications, as built by    *)
(* index.ts, and settling locally; each is introduced where it is defined. *)
(***************************************************************************)
EXTENDS Integers, Sequences, FiniteSets, TLC

VARIABLES
    mode,              \* this.mode
    settlementWallet,  \* this.settlementWallet is set
    now,               \* Math.floor(Date.now() / 1000)
    pc,                \* position of the call in flight
    op,                \* "none" | "verify" | "settle"
    payload,           \* the PaymentPayload argument of the call
    result,            \* what the call returned (or that it threw)
    delegate,          \* outcome of callFacilitator in this call
    path,              \* which code produced the result
    chain,             \* how far the chain client got in this call
    submissions,       \* on-chain submissions of the authorization in this call
    usedNonces,        \* chain state: authorization nonces already consumed
    replay,            \* the nonce was consumed before this call started
    timer,             \* the abort timer of callFacilitator
    options,           \* the MerchantExecutorOptions the engine was built from
    engine,            \* what the constructor built (or that it threw)
    request,           \* the HTTP request a paid handler is serving
    invocations,       \* concurrent calls of the engine, each with its own position
    txCount,           \* transactions of the settlement wallet the node has accepted
    env,               \* process.env as index.ts reads it
    response,          \* the body callFacilitator returned in this call
    error,             \* the error the chain client threw in this call
    sent               \* the arguments of the transferWithAuthorization call broadcast in this call

vars == <<mode, settlementWallet, now, pc, op, payload, result, delegate,
          path, chain, submissions, usedNonces, replay, timer, options, engine, request, invocations, txCount, env, response, error, sent>>

-----------------------------------------------------------------------------
(* Bounds *)

MaxNow == 2      \* the clock reads 1..MaxNow

-----------------------------------------------------------------------------
(* JavaScript values arriving in the untyped JSON payload *)

Str(s) == [t |-> "string", s |-> s]
Num(s) == [t |-> "number", s |-> s]      \* s is String(number)
Undef == [t |-> "undefined", s |-> <<>>]

Digits == {"0", "1", "2", "3", "9"}

DigitVal(c) ==
    CASE c = "0" -> 0 [] c = "1" -> 1 [] c = "2" -> 2 [] c = "3" -> 3
      [] c = "9" -> 9 [] OTHER -> 0

IsDigits(s) == \A i \in 1..Len(s) : s[i] \in Digits

RECURSIVE ParseDigits(_)
ParseDigits(s) ==
    IF s = <<>> THEN 0
    ELSE ParseDigits(SubSeq(s, 1, Len(s) - 1)) * 10 + DigitVal(s[Len(s)])

\* BigInt(v): throws on undefined and on a string that is not an integer
\* literal; BigInt("") is 0n.
BigIntOf(v) ==
    IF v.t = "undefined" \/ ~IsDigits(v.s)
    THEN [ok |-> FALSE, n |-> 0]
    ELSE [ok |-> TRUE, n |-> ParseDigits(v.s)]

\* Number(v ?? 0): undefined becomes 0, a non-numeric string NaN.
NumberOrZero(v) ==
    IF v.t = "undefined" THEN [nan |-> FALSE, n |-> 0]
    ELSE IF ~IsDigits(v.s) THEN [nan |-> TRUE, n |-> 0]
    ELSE [nan |-> FALSE, n |-> ParseDigits(v.s)]

\* JavaScript truthiness of a value: undefined, "" and 0 are falsy.
Truthy(v) ==
    /\ v.t # "undefined"
    /\ v.s # <<>>
    /\ ~(v.t = "number" /\ v.s = <<"0">>)

-----------------------------------------------------------------------------
(* Addresses: an account and the letter case it is written in *)

Addr(id, cs) == [id |-> id, cs |-> cs]
NoAddr == Addr("undefined", "-")       \* the field is absent
NotAString == Addr("123", "number")    \* the field holds a number

IsString(a) == a.cs \in {"lower", "checksum", "upper"}

\* String.prototype.toLowerCase
toLowerCase(a) == [a EXCEPT !.cs = "lower"]

-----------------------------------------------------------------------------
(* The engine's configuration *)

ChainId == 84532
OtherChainId == 8453

requirements ==
    [scheme |-> "exact",
     network |-> "base-sepolia",
     asset |-> "0x036CbD53842c5426634e7929541eC2318f3dCF7e",
     payTo |-> Addr("payee", "checksum"),
     maxAmountRequired |-> Str(<<"1", "0">>),
     resource |-> "https://oracle.local/query",
     maxTimeoutSeconds |-> 600,
     extra |-> [name |-> "USDC", version |-> "2"]]

buildEip712Domain(req) ==
    [name |-> req.extra.name,
     version |-> req.extra.version,
     chainId |-> ChainId,
     verifyingContract |-> req.asset]

-----------------------------------------------------------------------------
(* Numbers: IEEE-754 double precision, as far as getAtomicAmount needs it.
   A bit string is a sequence of 0 and 1, most significant bit first; a
   positive double is a significand of at most 53 bits and the exponent of
   its last bit. *)

RECURSIVE ToBits(_)
ToBits(n) == IF n = 0 THEN <<>> ELSE Append(ToBits(n \div 2), n % 2)

RECURSIVE FromBits(_)
FromBits(b) ==
    IF b = <<>> THEN 0
    ELSE 2 * FromBits(SubSeq(b, 1, Len(b) - 1)) + b[Len(b)]

Zeros(k) == [i \in 1..k |-> 0]

RECURSIVE Strip(_)
Strip(b) == IF b # <<>> /\ b[1] = 0 THEN Strip(Tail(b)) ELSE b

RECURSIVE Pow10(_)
Pow10(d) == IF d = 0 THEN 1 ELSE 10 * Pow10(d - 1)

\* Long division of bits lo..hi of a bit string by a small divisor, with
\* r the remainder brought in: the quotient bits and the remainder left.
RECURSIVE DivBits(_, _, _, _, _)
DivBits(b, divisor, lo, hi, r) ==
    IF lo > hi THEN [q |-> <<>>, r |-> r]
    ELSE IF lo = hi
    THEN LET x == 2 * r + b[lo]
         IN  IF x >= divisor THEN [q |-> <<1>>, r |-> x - divisor]
             ELSE [q |-> <<0>>, r |-> x]
    ELSE LET mid == (lo + hi) \div 2
             left == DivBits(b, divisor, lo, mid, r)
             right == DivBits(b, divisor, mid + 1, hi, left.r)
         IN  [q |-> left.q \o right.q, r |-> right.r]

Reverse(b) == [i \in 1..Len(b) |-> b[Len(b) + 1 - i]]

\* Product of bits lo..hi of a bit string, least significant bit first, and
\* a small factor, with the carry brought in from the bits below: the
\* product bits, least significant first, and the carry out.
RECURSIVE MulBits(_, _, _, _, _)
MulBits(b, factor, lo, hi, carry) ==
    IF lo > hi THEN [p |-> <<>>, carry |-> carry]
    ELSE IF lo = hi
    THEN LET x == carry + b[lo] * factor
         IN  [p |-> <<x % 2>>, carry |-> x \div 2]
    ELSE LET mid == (lo + hi) \div 2
             low == MulBits(b, factor, lo, mid, carry)
             high == MulBits(b, factor, mid + 1, hi, low.carry)
         IN  [p |-> low.p \o high.p, carry |-> high.carry]

RECURSIVE Increment(_)
Increment(b) ==
    IF b = <<>> THEN <<1>>
    ELSE IF b[Len(b)] = 0 THEN SubSeq(b, 1, Len(b) - 1) \o <<1>>
    ELSE Increment(SubSeq(b, 1, Len(b) - 1)) \o <<0>>

SignificandBits == 53

\* Round to nearest, ties to even: the double nearest to b * 2^e (sticky
\* says that the exact value lies above b * 2^e).
RoundToDouble(b, e, sticky) ==
    IF Len(b) <= SignificandBits THEN [m |-> b, e |-> e]
    ELSE LET keep == SubSeq(b, 1, SignificandBits)
             guard == b[SignificandBits + 1]
             rest == SubSeq(b, SignificandBits + 2, Len(b))
             above == sticky \/ \E i \in DOMAIN rest : rest[i] = 1
             up == guard = 1 /\ (above \/ keep[SignificandBits] = 1)
             m == IF up THEN Increment(keep) ELSE keep
             e2 == e + Len(b) - SignificandBits
         IN  IF Len(m) > SignificandBits
             THEN [m |-> SubSeq(m, 1, SignificandBits), e |-> e2 + 1]
             ELSE [m |-> m, e |-> e2]

\* A decimal literal n / 10^d, as the environment or the source spells a
\* price.
Decimal(n, d) == [n |-> n, d |-> d]

ScaleBits == 85

\* parseFloat, and the value of a numeric literal: the nearest double.
parseFloat(lit) ==
    LET scaled == ToBits(lit.n) \o Zeros(ScaleBits)
        qr == DivBits(scaled, Pow10(lit.d), 1, Len(scaled), 0)
    IN  RoundToDouble(Strip(qr.q), 0 - ScaleBits, qr.r # 0)

\* x * factor in double arithmetic: the exact product, rounded.
Times(x, factor) ==
    LET product == MulBits(Reverse(x.m), factor, 1, Len(x.m), 0)
    IN  RoundToDouble(Strip(ToBits(product.carry) \o Reverse(product.p)),
                      x.e, FALSE)

\* Math.floor of a positive double.
Floor(x) ==
    IF x.e >= 0 THEN FromBits(x.m \o Zeros(x.e))
    ELSE IF Len(x.m) + x.e <= 0 THEN 0
    ELSE FromBits(SubSeq(x.m, 1, Len(x.m) + x.e))

\* Number.prototype.toString of a non-negative integer below 1e21.
RECURSIVE DecimalDigits(_)
DecimalDigits(n) ==
    LET digit == CASE n % 10 = 0 -> "0" [] n % 10 = 1 -> "1" [] n % 10 = 2 -> "2"
                   [] n % 10 = 3 -> "3" [] n % 10 = 4 -> "4" [] n % 10 = 5 -> "5"
                   [] n % 10 = 6 -> "6" [] n % 10 = 7 -> "7" [] n % 10 = 8 -> "8"
                   [] OTHER -> "9"
    IN  IF n < 10 THEN <<digit>> ELSE Append(DecimalDigits(n \div 10), digit)

toString(n) == Str(DecimalDigits(n))

AtomicUnits == 1000000

getAtomicAmount(priceUsd) == toString(Floor(Times(priceUsd, AtomicUnits)))

-----------------------------------------------------------------------------
(* Construction *)

\* Values of optional configuration: absent, a string (possibly empty), or
\* a number.
Absent == [t |-> "undefined"]
Text(s) == [t |-> "string", s |-> s]
Number(n) == [t |-> "number", n |-> n]

\* !!v
IsTruthy(v) ==
    \/ v.t = "string" /\ v.s # ""
    \/ v.t = "number" /\ v.n # 0

\* a ?? b
Coalesce(a, b) == IF a.t = "undefined" THEN b ELSE a

\* a || b
OrElse(a, b) == IF IsTruthy(a) THEN a ELSE b

\* The registry; a network outside it has no entry, and builtinConfig?.x is
\* then undefined.
BUILT_IN_NETWORKS(network) ==
    CASE network = "base-sepolia" ->
           [chainId |-> Number(ChainId),
            assetAddress |-> Text(requirements.asset),
            assetName |-> Text("USDC")]
      [] network = "base" ->
           [chainId |-> Number(OtherChainId),
            assetAddress |-> Text("0x833589fCD6eDb6E08f4c7C32D4f71b54bdA02913"),
            assetName |-> Text("USD Coin")]
      [] network = "solana-devnet" ->
           [chainId |-> Absent,
            assetAddress |-> Text("4zMMC9srt5Ri5X14GAgXhaHii3GnPAEERYPJgZJDncDU"),
            assetName |-> Text("USDC")]
      [] OTHER ->
           [chainId |-> Absent, assetAddress |-> Absent, assetName |-> Absent]

getDefaultRpcUrl(network) ==
    CASE network = "base-sepolia" -> Text("https://sepolia.base.org")
      [] network = "base" -> Text("https://mainnet.base.org")
      [] OTHER -> Absent

DEFAULT_FACILITATOR_URL == Text("https://x402.org/facilitator")

\* A mode selection that looks at the explicit setting only.
selectModeKeyIgnored(o) ==
    IF IsTruthy(o.settlementMode) THEN o.settlementMode.s ELSE "facilitator"

\* "Determine settlement mode": explicit setting, else the private key,
\* else facilitator.
selectMode(o) ==
    IF IsTruthy(o.settlementMode) THEN o.settlementMode.s
    ELSE IF IsTruthy(o.privateKey) THEN "direct"
    ELSE IF IsTruthy(o.facilitatorUrl) THEN "facilitator"
    ELSE "facilitator"

\* Messages of the errors the constructor throws.
AssetAddressMissing == "Asset address must be provided for network"
AssetNameMissing == "Asset name must be provided for network"
EvmOnly == "Direct settlement is only supported on EVM networks."
RpcUrlMissing == "Direct settlement requires an RPC URL for network"
ChainIdMissing == "Direct settlement requires a numeric CHAIN_ID for network"
WalletInitFailed == "Failed to initialize settlement wallet"

\* new ethers.Wallet(key, provider) accepts a 32-byte hex key and throws on
\* anything else.
GoodKey == Text("0xkey")
BadKey == Text("not-a-key")

NoEngine == [kind |-> "none"]
ConstructorThrew(message) == [kind |-> "thrown", message |-> message]

\* An asset resolution that falls back to a default asset when neither the
\* options nor the registry name one.
resolveAssetGuessing(o) ==
    LET builtinConfig == BUILT_IN_NETWORKS(o.network)
        fallback == BUILT_IN_NETWORKS("base-sepolia")
    IN  [assetAddress |-> OrElse(Coalesce(o.assetAddress,
                                          builtinConfig.assetAddress),
                                 fallback.assetAddress),
         assetName |-> OrElse(Coalesce(o.assetName, builtinConfig.assetName),
                              fallback.assetName)]

\* options.assetAddress ?? builtinConfig?.assetAddress, and the same for the
\* asset name.
resolveAsset(o) ==
    LET builtinConfig == BUILT_IN_NETWORKS(o.network)
    IN  [assetAddress |-> Coalesce(o.assetAddress, builtinConfig.assetAddress),
         assetName |-> Coalesce(o.assetName, builtinConfig.assetName)]

\* Mutant: a requirement whose timeout is left at zero.
buildRequirementsNoTimeout(o, asset) ==
    [scheme |-> "exact",
     network |-> o.network,
     asset |-> asset.assetAddress.s,
     payTo |-> o.payToAddress,
     maxAmountRequired |-> getAtomicAmount(parseFloat(o.price)),
     resource |-> OrElse(o.resourceUrl, Text("https://oracle.local/query")).s,
     maxTimeoutSeconds |-> 0,
     extra |-> [name |-> asset.assetName.s, version |-> "2"]]

\* this.requirements = { ... }: the payment requirement of the engine.
buildRequirements(o, asset) ==
    [scheme |-> "exact",
     network |-> o.network,
     asset |-> asset.assetAddress.s,
     payTo |-> o.payToAddress,
     maxAmountRequired |-> getAtomicAmount(parseFloat(o.price)),
     resource |-> OrElse(o.resourceUrl, Text("https://oracle.local/query")).s,
     maxTimeoutSeconds |-> 600,
     extra |-> [name |-> asset.assetName.s, version |-> "2"]]

\* The constructor: the engine it builds, or the error it throws.
constructor(o) ==
    LET asset == resolveAsset(o)
        chainId == Coalesce(o.chainId, BUILT_IN_NETWORKS(o.network).chainId)
        m == selectMode(o)
        rpcUrl == OrElse(o.rpcUrl, getDefaultRpcUrl(o.network))
        withKey == IsTruthy(o.privateKey)
    IN  IF ~IsTruthy(asset.assetAddress)
        THEN ConstructorThrew(AssetAddressMissing)
        ELSE IF ~IsTruthy(asset.assetName)
        THEN ConstructorThrew(AssetNameMissing)
        ELSE IF withKey /\ o.network \in {"solana", "solana-devnet"}
        THEN ConstructorThrew(EvmOnly)
        ELSE IF withKey /\ ~IsTruthy(rpcUrl)
        THEN ConstructorThrew(RpcUrlMissing)
        ELSE IF withKey /\ chainId.t # "number"
        THEN ConstructorThrew(ChainIdMissing)
        ELSE IF withKey /\ o.privateKey # GoodKey
        THEN ConstructorThrew(WalletInitFailed)
        ELSE [kind |-> "engine",
              requirements |-> buildRequirements(o, asset),
              mode |-> m,
              network |-> o.network,
              asset |-> asset.assetAddress,
              assetName |-> asset.assetName,
              maxAmountRequired |-> getAtomicAmount(parseFloat(o.price)),
              chainId |-> chainId,
              settlementProvider |-> IF withKey THEN rpcUrl ELSE Absent,
              settlementWallet |-> withKey,
              facilitatorUrl |-> IF m = "facilitator"
                                 THEN OrElse(o.facilitatorUrl,
                                             DEFAULT_FACILITATOR_URL)
                                 ELSE Absent]

\* The environment variables index.ts builds the engines' options from.
\* An engine built by another caller reads none of them.
NoEnv ==
    [SETTLEMENT_MODE |-> Absent, PRIVATE_KEY |-> Absent,
     FACILITATOR_URL |-> Absent, PAYMENT_NETWORK |-> Absent,
     QUERY_PRICE |-> Absent]

\* The price of the engines the facade is exercised with: 0.00001, ten
\* atomic units.
UnitPrice == Decimal(1, 5)

\* Options as the server passes them (index.ts): USDC on base-sepolia.  The
\* price is the literal the environment spells; the number passed is
\* parseFloat of it.
ServerOptions(settlementMode, privateKey, facilitatorUrl) ==
    [network |-> "base-sepolia",
     payToAddress |-> requirements.payTo,
     resourceUrl |-> Absent,
     price |-> UnitPrice,
     settlementMode |-> settlementMode,
     privateKey |-> privateKey,
     facilitatorUrl |-> facilitatorUrl,
     assetAddress |-> Text(requirements.asset),
     assetName |-> Text("USDC"),
     rpcUrl |-> Absent,
     chainId |-> Number(ChainId)]

DirectOptions == ServerOptions(Text("direct"), Absent, Absent)

SettlementModes == {Absent, Text("direct"), Text("facilitator")}
FacilitatorUrls == {Absent, Text("https://facilitator.example")}

\* The configurations under which the facade is exercised.
FacadeOptions ==
    {ServerOptions(sm, pk, fu) :
        sm \in SettlementModes, pk \in {Absent, GoodKey},
        fu \in FacilitatorUrls}

\* The configurations under which construction is exercised.
OptionNetworks == {"base-sepolia", "solana-devnet", "localnet"}

ConstructOptions ==
    [network : OptionNetworks,
     payToAddress : {requirements.payTo},
     resourceUrl : {Absent},
     price : {UnitPrice},
     settlementMode : SettlementModes,
     privateKey : {Absent, GoodKey, BadKey},
     facilitatorUrl : FacilitatorUrls,
     assetAddress : {Absent, Text(""), Text(requirements.asset)},
     assetName : {Absent, Text("USDC")},
     rpcUrl : {Absent, Text("http://localhost:8545")},
     chainId : {Absent, Number(ChainId)}]

\* The typed message can be encoded only if both addresses are strings and
\* the three uint256 fields are integers.
Encodable(a) ==
    /\ IsString(a.from) /\ IsString(a.to)
    /\ BigIntOf(a.value).ok
    /\ BigIntOf(a.validAfter).ok /\ a.validAfter.s # <<>>
    /\ BigIntOf(a.validBefore).ok /\ a.validBefore.s # <<>>
    /\ a.value.s # <<>>

\* Hash of TRANSFER_AUTH_TYPES data under a domain: addresses enter by
\* account (letter case is irrelevant), integers by value.
TypedDataHash(domain, a) ==
    [domain |-> domain,
     from |-> a.from.id, to |-> a.to.id,
     value |-> BigIntOf(a.value).n,
     validAfter |-> BigIntOf(a.validAfter).n,
     validBefore |-> BigIntOf(a.validBefore).n,
     nonce |-> a.nonce]

NoHash == [domain |-> "-"]

NoSignature == [kind |-> "absent", signer |-> "-", hash |-> NoHash]
Malformed == [kind |-> "malformed", signer |-> "-", hash |-> NoHash]
Sign(signer, hash) == [kind |-> "ecdsa", signer |-> signer, hash |-> hash]

\* ethers.verifyTypedData: the signer when the signature is over this very
\* hash, an unrelated address when it is over anything else, an error when
\* the message cannot be encoded or the signature cannot be parsed.
verifyTypedData(domain, a, signature) ==
    IF signature.kind # "ecdsa" \/ ~Encodable(a)
    THEN [error |-> TRUE, address |-> NoAddr]
    ELSE IF signature.hash = TypedDataHash(domain, a)
    THEN [error |-> FALSE, address |-> Addr(signature.signer, "checksum")]
    ELSE [error |-> FALSE, address |-> Addr("unrelated", "checksum")]

-----------------------------------------------------------------------------
(* Results *)

NoResult == [kind |-> "none"]
Thrown(message) == [kind |-> "thrown", message |-> message]

VerifyResult(isValid, payer, invalidReason) ==
    [kind |-> "VerifyResult", isValid |-> isValid, payer |-> payer,
     invalidReason |-> invalidReason]

Invalid(reason) == VerifyResult(FALSE, NoAddr, reason)

MissingData == "Missing payment authorization data"
NetworkMismatch == "Network mismatch"
RecipientMismatch == "Authorization recipient does not match payment requirement"
AmountTooLow == "Authorized amount is less than required amount"
InvalidAmount == "Invalid payment amount provided"
InvalidTiming == "Invalid authorization timing fields"
NotYetValid == "Payment authorization is not yet valid"
Expired == "Payment authorization has expired"
SignatureMismatch == "Signature does not match payer address"
SignatureFailed == "Signature verification failed"
ToLowerCaseTypeError == "authorization.to?.toLowerCase is not a function"
PayloadTypeError == "Cannot read properties of undefined"

-----------------------------------------------------------------------------
(* Payloads *)

NoAuthorization ==
    [present |-> FALSE, from |-> NoAddr, to |-> NoAddr, value |-> Undef,
     validAfter |-> Undef, validBefore |-> Undef, nonce |-> "-"]

Authorization(from, to, value, validAfter, validBefore, nonce) ==
    [present |-> TRUE, from |-> from, to |-> to, value |-> value,
     validAfter |-> validAfter, validBefore |-> validBefore, nonce |-> nonce]

MissingPayload ==
    [present |-> FALSE, network |-> "-", authorization |-> NoAuthorization,
     signature |-> NoSignature]

Payload(network, authorization, signature) ==
    [present |-> TRUE, network |-> network, authorization |-> authorization,
     signature |-> signature]

\* A request to a paid handler: where the handler is in it, the status it
\* answered with, and what has happened in it so far.
NoBody == [payment |-> MissingPayload, paymentStatus |-> "undefined",
           input |-> "ok", parts |-> "text"]

\* No response body yet.
NoAnswer == [kind |-> "none"]

NoRequest ==
    [pc |-> "none", handler |-> "none", body |-> NoBody, status |-> 0,
     answer |-> NoAnswer, events |-> <<>>]

\* Errors the chain client throws: the substrings its message contains,
\* whether it carries a reason, and its code.
ChainError(includes, reason, code) ==
    [includes |-> includes, reason |-> reason, code |-> code]

InvalidArgument == ChainError({}, FALSE, "INVALID_ARGUMENT")

\* No error thrown.
NoError == ChainError({}, FALSE, "none")

\* No contract call broadcast.
NoCall == [contract |-> "none"]

\* Calls that run concurrently on one engine.
Invocations == {1, 2}

NoInvocation ==
    [pc |-> "idle", op |-> "none", payload |-> MissingPayload, txNonce |-> 0,
     at |-> 0, path |-> "none", result |-> NoResult]

-----------------------------------------------------------------------------
(* verifyPaymentLocally *)

\* Mutant: the recovered address is not compared with the declared payer.
verifySignatureNoCompare(p, req) ==
    LET a == p.authorization
        recovered == verifyTypedData(buildEip712Domain(req), a, p.signature)
    IN  IF recovered.error \/ ~IsString(a.from)
        THEN Invalid(SignatureFailed)
        ELSE VerifyResult(TRUE, recovered.address, "undefined")

verifySignature(p, req) ==
    LET a == p.authorization
        recovered == verifyTypedData(buildEip712Domain(req), a, p.signature)
    IN  IF recovered.error \/ ~IsString(a.from)
        THEN Invalid(SignatureFailed)
        ELSE IF toLowerCase(recovered.address) # toLowerCase(a.from)
        THEN Invalid(SignatureMismatch)
        ELSE VerifyResult(TRUE, recovered.address, "undefined")

\* Mutant: the upper bound of the window is inclusive.
verifyTimingInclusive(p, req, t) ==
    LET a == p.authorization
        validAfterNum == NumberOrZero(a.validAfter)
        validBeforeNum == NumberOrZero(a.validBefore)
    IN  IF validAfterNum.nan \/ validBeforeNum.nan
        THEN Invalid(InvalidTiming)
        ELSE IF validAfterNum.n > t THEN Invalid(NotYetValid)
        ELSE IF validBeforeNum.n < t THEN Invalid(Expired)
        ELSE verifySignature(p, req)

verifyTiming(p, req, t) ==
    LET a == p.authorization
        validAfterNum == NumberOrZero(a.validAfter)
        validBeforeNum == NumberOrZero(a.validBefore)
    IN  IF validAfterNum.nan \/ validBeforeNum.nan
        THEN Invalid(InvalidTiming)
        ELSE IF validAfterNum.n > t THEN Invalid(NotYetValid)
        ELSE IF validBeforeNum.n <= t THEN Invalid(Expired)
        ELSE verifySignature(p, req)

\* Mutant: an amount equal to the required amount is rejected.
verifyAmountStrict(p, req, t) ==
    LET requiredAmount == BigIntOf(req.maxAmountRequired)
        authorizedAmount == BigIntOf(p.authorization.value)
    IN  IF ~requiredAmount.ok \/ ~authorizedAmount.ok
        THEN Invalid(InvalidAmount)
        ELSE IF authorizedAmount.n <= requiredAmount.n
        THEN Invalid(AmountTooLow)
        ELSE verifyTiming(p, req, t)

\* Mutant: the time window is checked ahead of the amount.
verifyAmountTimingFirst(p, req, t) ==
    LET requiredAmount == BigIntOf(req.maxAmountRequired)
        authorizedAmount == BigIntOf(p.authorization.value)
        timed == verifyTiming(p, req, t)
    IN  IF ~timed.isValid /\ timed.invalidReason \in {InvalidTiming, NotYetValid, Expired}
        THEN timed
        ELSE IF ~requiredAmount.ok \/ ~authorizedAmount.ok
        THEN Invalid(InvalidAmount)
        ELSE IF authorizedAmount.n < requiredAmount.n
        THEN Invalid(AmountTooLow)
        ELSE timed

verifyAmount(p, req, t) ==
    LET requiredAmount == BigIntOf(req.maxAmountRequired)
        authorizedAmount == BigIntOf(p.authorization.value)
    IN  IF ~requiredAmount.ok \/ ~authorizedAmount.ok
        THEN Invalid(InvalidAmount)
        ELSE IF authorizedAmount.n < requiredAmount.n
        THEN Invalid(AmountTooLow)
        ELSE verifyTiming(p, req, t)

verifyRecipient(p, req, t) ==
    LET to == p.authorization.to
    IN  IF to = NoAddr THEN Invalid(RecipientMismatch)
        ELSE IF ~IsString(to) THEN Thrown(ToLowerCaseTypeError)
        ELSE IF toLowerCase(to) # toLowerCase(req.payTo)
        THEN Invalid(RecipientMismatch)
        ELSE verifyAmount(p, req, t)

verifyPaymentLocally(p, req, t) ==
    IF ~p.present THEN Thrown(PayloadTypeError)
    ELSE IF ~p.authorization.present \/ p.signature.kind = "absent"
    THEN Invalid(MissingData)
    ELSE IF p.network # req.network THEN Invalid(NetworkMismatch)
    ELSE verifyRecipient(p, req, t)

\* Mutant: a verifier that rejects an authorization whose nonce the chain
\* has consumed.
verifyPaymentDirectNonceChecked(p, t) ==
    IF ~p.present THEN Thrown(PayloadTypeError)
    ELSE IF p.authorization.present /\ p.authorization.nonce \in usedNonces
    THEN Invalid("Authorization already used")
    ELSE LET r == verifyPaymentLocally(p, requirements, t)
         IN  IF r.kind = "thrown" THEN Invalid(r.message) ELSE r

\* verifyPayment when the mode is direct: the log line ahead of the try
\* reads payload.network, and the outer catch turns what the local verifier
\* throws into a result.
verifyPaymentDirect(p, t) ==
    IF ~p.present THEN Thrown(PayloadTypeError)
    ELSE LET r == verifyPaymentLocally(p, requirements, t)
         IN  IF r.kind = "thrown" THEN Invalid(r.message) ELSE r

-----------------------------------------------------------------------------
(* Inputs of SpecVerify *)

Networks == {"base-sepolia", "base"}
Recipients == {NoAddr, NotAString, Addr("payee", "checksum"),
               Addr("payee", "lower"), Addr("other", "lower")}
Payers == {NoAddr, Addr("payer", "checksum"), Addr("payer", "lower"),
           Addr("other", "checksum")}
Values == {Undef, Str(<<"9">>), Str(<<"1", "0">>), Str(<<"1", "1">>),
           Str(<<"1", "x">>)}
ValidAfters == {Undef, Str(<<"1">>), Str(<<"2">>), Str(<<"3">>), Str(<<"x">>)}
ValidBefores == {Str(<<"1">>), Str(<<"2">>), Str(<<"3">>), Str(<<"x">>)}
SignatureKinds == {"absent", "malformed", "payer", "other", "payer-other-chain",
                   "payer-other-value"}

\* The signature a client of the given kind attaches to an authorization.
SignatureOf(kind, a) ==
    LET domain == buildEip712Domain(requirements)
    IN  CASE kind = "absent" -> NoSignature
          [] kind = "malformed" -> Malformed
          [] ~Encodable(a) -> Sign("payer", NoHash)
          [] kind = "payer" -> Sign("payer", TypedDataHash(domain, a))
          [] kind = "other" -> Sign("other", TypedDataHash(domain, a))
          [] kind = "payer-other-chain" ->
                Sign("payer", TypedDataHash([domain EXCEPT !.chainId = OtherChainId], a))
          [] OTHER ->
                Sign("payer", TypedDataHash(domain, [a EXCEPT !.value = Str(<<"9">>)]))

VerifyInputs ==
    {MissingPayload}
    \cup { Payload(n, NoAuthorization, SignatureOf(k, NoAuthorization)) :
             n \in Networks, k \in {"absent", "malformed"} }
    \cup { Payload(n, Authorization(f, t, v, va, vb, "n1"),
                   SignatureOf(k, Authorization(f, t, v, va, vb, "n1"))) :
             n \in Networks, f \in Payers, t \in Recipients, v \in Values,
             va \in ValidAfters, vb \in ValidBefores, k \in SignatureKinds }

-----------------------------------------------------------------------------
(* SpecVerify: the local verification of one payload at one clock reading *)

InitVerify ==
    /\ sent = NoCall
    /\ error = NoError
    /\ response = NoResult
    /\ env = NoEnv
    /\ txCount = 0
    /\ invocations = [i \in Invocations |-> NoInvocation]
    /\ request = NoRequest
    /\ options = DirectOptions
    /\ engine = constructor(options)
    /\ timer = "off"
    /\ mode = "direct"
    /\ settlementWallet = FALSE
    /\ now \in 1..MaxNow
    /\ pc = "idle"
    /\ op = "none"
    /\ payload \in VerifyInputs
    /\ result = NoResult
    /\ delegate = "none"
    /\ path = "none"
    /\ chain = "none"
    /\ submissions = 0
    /\ usedNonces = {}
    /\ replay = FALSE

VerifyDirect ==
    /\ UNCHANGED sent
    /\ UNCHANGED error
    /\ UNCHANGED response
    /\ UNCHANGED env
    /\ UNCHANGED txCount
    /\ UNCHANGED invocations
    /\ UNCHANGED request
    /\ UNCHANGED engine
    /\ UNCHANGED options
    /\ UNCHANGED timer
    /\ pc = "idle"
    /\ mode = "direct"
    /\ op' = "verify"
    /\ result' = verifyPaymentDirect(payload, now)
    /\ path' = "local"
    /\ pc' = "done"
    /\ UNCHANGED <<mode, settlementWallet, now, payload, delegate, chain,
                   submissions, usedNonces, replay>>

NextVerify == VerifyDirect

SpecVerify == InitVerify /\ [][NextVerify]_vars

-----------------------------------------------------------------------------
(* settleOnChain *)

SettlementResult(success, transaction, payer, errorReason) ==
    [kind |-> "SettlementResult", success |-> success,
     transaction |-> transaction, network |-> requirements.network,
     payer |-> payer, errorReason |-> errorReason]

WalletNotConfigured == "Settlement wallet not configured"
MissingSettleData == "Missing payment authorization data"
MissingValue == "Missing authorization value"
InvalidValueFormat == "Invalid authorization value format"
InvalidSignatureFormat == "Invalid signature format"
TransactionReverted == "Transaction reverted"
InsufficientFunds == "Insufficient funds for gas"
NonceError == "Transaction nonce error"
ContractRevert == "Contract revert"
Rejected == "Transaction was rejected"
NetworkError == "Network error during settlement"
RawMessage == "error.message"

\* BigInt conversion of validAfter / validBefore: a falsy value becomes 0n.
BigIntOrZero(v) == IF Truthy(v) THEN BigIntOf(v) ELSE [ok |-> TRUE, n |-> 0]

\* Mutant: a settler that parses the signature ahead of the value checks.
settleOnChainChecksSignatureFirst(p) ==
    LET a == p.authorization
    IN  IF ~p.present THEN Thrown(PayloadTypeError)
        ELSE IF ~a.present \/ p.signature.kind = "absent"
        THEN SettlementResult(FALSE, "undefined", NoAddr, MissingSettleData)
        ELSE IF p.signature.kind # "ecdsa"
        THEN SettlementResult(FALSE, "undefined", a.from, InvalidSignatureFormat)
        ELSE IF ~Truthy(a.value)
        THEN SettlementResult(FALSE, "undefined", a.from, MissingValue)
        ELSE IF \/ ~BigIntOf(a.value).ok
                \/ ~BigIntOrZero(a.validAfter).ok
                \/ ~BigIntOrZero(a.validBefore).ok
        THEN SettlementResult(FALSE, "undefined", a.from, InvalidValueFormat)
        ELSE [kind |-> "send"]

\* settleOnChain past the wallet check and ahead of the contract call: a
\* result when a check fails, a TypeError when payload.payload cannot be
\* read, "send" when the transaction is to be submitted.
settleOnChainChecks(p) ==
    LET a == p.authorization
    IN  IF ~p.present THEN Thrown(PayloadTypeError)
        ELSE IF ~a.present \/ p.signature.kind = "absent"
        THEN SettlementResult(FALSE, "undefined", NoAddr, MissingSettleData)
        ELSE IF ~Truthy(a.value)
        THEN SettlementResult(FALSE, "undefined", a.from, MissingValue)
        ELSE IF \/ ~BigIntOf(a.value).ok
                \/ ~BigIntOrZero(a.validAfter).ok
                \/ ~BigIntOrZero(a.validBefore).ok
        THEN SettlementResult(FALSE, "undefined", a.from, InvalidValueFormat)
        ELSE IF p.signature.kind # "ecdsa"
        THEN SettlementResult(FALSE, "undefined", a.from, InvalidSignatureFormat)
        ELSE [kind |-> "send"]

\* A settler that goes on without a wallet.
settleOnChainPrepareNoWalletCheck(p, wallet) == settleOnChainChecks(p)

\* The part of settleOnChain ahead of the contract call: the wallet check,
\* then the checks of the payload.
settleOnChainPrepare(p, wallet) ==
    IF ~wallet
    THEN SettlementResult(FALSE, "undefined", NoAddr, WalletNotConfigured)
    ELSE settleOnChainChecks(p)

\* Mutant: a settler that transfers the required amount.
transferWithAuthorizationRequiredAmount(p, req) ==
    LET a == p.authorization
    IN  [contract |-> req.asset,
         from |-> a.from, to |-> a.to,
         value |-> BigIntOf(req.maxAmountRequired).n,
         validAfter |-> BigIntOrZero(a.validAfter).n,
         validBefore |-> BigIntOrZero(a.validBefore).n,
         nonce |-> a.nonce,
         signature |-> p.signature]

\* usdcContract.transferWithAuthorization(from, to, value, validAfter,
\* validBefore, nonce, v, r, s) on the contract at requirements.asset: the
\* converted fields of the authorization and the parsed signature.
transferWithAuthorization(p, req) ==
    LET a == p.authorization
    IN  [contract |-> req.asset,
         from |-> a.from, to |-> a.to,
         value |-> BigIntOf(a.value).n,
         validAfter |-> BigIntOrZero(a.validAfter).n,
         validBefore |-> BigIntOrZero(a.validBefore).n,
         nonce |-> a.nonce,
         signature |-> p.signature]

ChainErrors ==
    {ChainError({"insufficient funds"}, FALSE, "INSUFFICIENT_FUNDS"),
     ChainError({"nonce"}, FALSE, "NONCE_EXPIRED"),
     ChainError({"revert"}, TRUE, "CALL_EXCEPTION"),
     ChainError({}, TRUE, "CALL_EXCEPTION"),
     ChainError({}, FALSE, "ACTION_REJECTED"),
     ChainError({}, TRUE, "ACTION_REJECTED"),
     ChainError({}, FALSE, "NETWORK_ERROR"),
     ChainError({"insufficient funds", "revert"}, TRUE, "CALL_EXCEPTION"),
     ChainError({}, FALSE, "TIMEOUT")}

\* Mutant: a classification that looks for a revert first.
classifyErrorRevertFirst(e) ==
    IF "revert" \in e.includes \/ e.reason THEN ContractRevert
    ELSE IF "insufficient funds" \in e.includes THEN InsufficientFunds
    ELSE IF "nonce" \in e.includes THEN NonceError
    ELSE IF e.code = "ACTION_REJECTED" THEN Rejected
    ELSE IF e.code = "NETWORK_ERROR" THEN NetworkError
    ELSE RawMessage

\* The catch block of settleOnChain: first match decides the reason.
classifyError(e) ==
    IF "insufficient funds" \in e.includes THEN InsufficientFunds
    ELSE IF "nonce" \in e.includes THEN NonceError
    ELSE IF "revert" \in e.includes \/ e.reason THEN ContractRevert
    ELSE IF e.code = "ACTION_REJECTED" THEN Rejected
    ELSE IF e.code = "NETWORK_ERROR" THEN NetworkError
    ELSE RawMessage

settleFromError(p, e) ==
    SettlementResult(FALSE, "undefined", p.authorization.from, classifyError(e))

TxHash(p) == "0xtx"

\* Mutant: the transaction counts as settled once it has been broadcast.
settleFromReceiptBroadcastIsSuccess(p, status) ==
    SettlementResult(TRUE, TxHash(p), p.authorization.from, "undefined")

\* Mutant: a reverted transaction is reported without a reason.
settleFromReceiptNoReason(p, status) ==
    SettlementResult(status = 1, TxHash(p), p.authorization.from, "undefined")

\* The result built from the receipt tx.wait() returned.
settleFromReceipt(p, status) ==
    LET success == status = 1
    IN  SettlementResult(success, TxHash(p), p.authorization.from,
                         IF success THEN "undefined" ELSE TransactionReverted)

\* The outer catch of settlePayment.
settlePaymentCatch(message) ==
    SettlementResult(FALSE, "undefined", NoAddr, message)

-----------------------------------------------------------------------------
(* The facilitator *)

FacilitatorFailures == {"throws", "timeout", "non-2xx"}

FacilitatorTimedOut == "Facilitator request timed out after 10 seconds"
FacilitatorFailed == "Facilitator request failed"

FacilitatorMessage(failure) ==
    IF failure = "timeout" THEN FacilitatorTimedOut ELSE FacilitatorFailed

FacilitatorInvalid == "facilitator: invalid payment"
FacilitatorUnsettled == "facilitator: settlement failed"

\* Bodies of a 2xx answer to /verify and to /settle.  callFacilitator
\* returns the parsed JSON as it is: the verdict, with or without the payer
\* the facilitator names.
FacilitatorVerifyBody(p, valid, withPayer) ==
    VerifyResult(valid,
                 IF withPayer THEN p.authorization.from ELSE NoAddr,
                 IF valid THEN "undefined" ELSE FacilitatorInvalid)

FacilitatorSettleBody(p, settled) ==
    IF settled
    THEN SettlementResult(TRUE, TxHash(p), p.authorization.from, "undefined")
    ELSE SettlementResult(FALSE, "undefined", p.authorization.from,
                          FacilitatorUnsettled)

\* A facade that passes on a positive answer only.
verifyPaymentDelegatedPositiveOnly(body) ==
    IF body.isValid THEN body ELSE Invalid(FacilitatorFailed)

\* verifyPayment after callFacilitator returned: result = await
\* this.callFacilitator('verify', payload), returned as it is.
verifyPaymentDelegated(body) == body

settlePaymentDelegated(body) == body

\* Mutant: no local fallback, the facilitator's error reaches the outer catch.
verifyPaymentNoFallback(p, t, failure) == Invalid(FacilitatorMessage(failure))

\* Mutant: when the local verifier rejects too, the facilitator's error is
\* the reason reported.
verifyPaymentFallbackDelegateReason(p, t, failure) ==
    LET r == verifyPaymentLocally(p, requirements, t)
    IN  IF r.kind = "thrown" \/ ~r.isValid
        THEN Invalid(FacilitatorMessage(failure))
        ELSE r

\* verifyPayment after callFacilitator threw: local verification, and the
\* outer catch for what the local verifier throws.
verifyPaymentFallback(p, t, failure) ==
    LET r == verifyPaymentLocally(p, requirements, t)
    IN  IF r.kind = "thrown" THEN Invalid(r.message) ELSE r

\* settlePayment after callFacilitator threw (and settlePayment in direct
\* mode): the start of settleOnChain, and the outer catch for what it throws.
settlePaymentFallback(p, wallet, failure) ==
    LET r == settleOnChainPrepare(p, wallet)
    IN  IF r.kind = "thrown" THEN settlePaymentCatch(r.message) ELSE r

-----------------------------------------------------------------------------
(* Inputs of Spec *)

FacadeValues == {Undef, Str(<<"1", "0">>), Num(<<"1", "0">>), Str(<<"1", "x">>)}

FacadeInputs ==
    {MissingPayload, Payload("base-sepolia", NoAuthorization, NoSignature),
     Payload("base-sepolia",
             Authorization(Addr("payer", "checksum"), Addr("payee", "lower"),
                           Str(<<"1", "0">>), Str(<<"1">>), Str(<<"3">>), "n1"),
             NoSignature)}
    \cup { Payload("base-sepolia",
                   Authorization(Addr("payer", "checksum"), t, v,
                                 Str(<<"1">>), Str(<<"3">>), n),
                   SignatureOf(k, Authorization(Addr("payer", "checksum"), t, v,
                                                Str(<<"1">>), Str(<<"3">>), n))) :
             t \in {Addr("payee", "lower"), NotAString}, v \in FacadeValues,
             n \in {"n1", "n2"}, k \in {"malformed", "payer"} }

-----------------------------------------------------------------------------
(* Spec: the facade *)

Init ==
    /\ sent = NoCall
    /\ error = NoError
    /\ response = NoResult
    /\ env = NoEnv
    /\ txCount = 0
    /\ invocations = [i \in Invocations |-> NoInvocation]
    /\ request = NoRequest
    /\ options \in FacadeOptions
    /\ engine = constructor(options)
    /\ timer = "off"
    /\ mode = engine.mode
    /\ settlementWallet = engine.settlementWallet
    /\ now = 1
    /\ pc = "idle"
    /\ op = "none"
    /\ payload = MissingPayload
    /\ result = NoResult
    /\ delegate = "none"
    /\ path = "none"
    /\ chain = "none"
    /\ submissions = 0
    /\ usedNonces = {}
    /\ replay = FALSE

\* The asset contract executes an authorization only while its nonce is
\* unused.
NonceUnused(p) == p.authorization.nonce \notin usedNonces

Tick ==
    /\ UNCHANGED sent
    /\ UNCHANGED error
    /\ UNCHANGED response
    /\ UNCHANGED env
    /\ UNCHANGED txCount
    /\ UNCHANGED invocations
    /\ UNCHANGED request
    /\ UNCHANGED engine
    /\ UNCHANGED options
    /\ UNCHANGED timer
    /\ pc # "done"
    /\ now < MaxNow
    /\ now' = now + 1
    /\ UNCHANGED <<mode, settlementWallet, pc, op, payload, result, delegate,
                   path, chain, submissions, usedNonces, replay>>

\* The caller takes the result; the engine is ready for the next call.
TakeResult ==
    /\ UNCHANGED env
    /\ UNCHANGED txCount
    /\ UNCHANGED invocations
    /\ UNCHANGED engine
    /\ UNCHANGED options
    /\ UNCHANGED timer
    /\ pc = "done"
    /\ pc' = "idle"
    /\ response' = NoResult
    /\ error' = NoError
    /\ sent' = NoCall
    /\ op' = "none"
    /\ payload' = MissingPayload
    /\ result' = NoResult
    /\ delegate' = "none"
    /\ path' = "none"
    /\ chain' = "none"
    /\ submissions' = 0
    /\ replay' = FALSE
    /\ UNCHANGED <<mode, settlementWallet, now, usedNonces>>

\* A caller outside the handlers takes the result.
Return == TakeResult /\ UNCHANGED request

\* A facade that tries the facilitator whatever its mode.
IsFacilitatorModeAlways(m) == TRUE

\* The test both facade operations make before any delegation:
\* this.mode === 'facilitator'.
IsFacilitatorMode(m) == m = "facilitator"

\* Mutant: a verifyPayment that goes on to settle what it found valid.
CallVerifyPaymentSettling(p) ==
    /\ UNCHANGED sent
    /\ UNCHANGED error
    /\ UNCHANGED response
    /\ UNCHANGED env
    /\ UNCHANGED txCount
    /\ UNCHANGED invocations
    /\ UNCHANGED engine
    /\ UNCHANGED options
    /\ pc = "idle"
    /\ op' = "verify"
    /\ payload' = p
    /\ IF ~p.present
       THEN /\ result' = Thrown(PayloadTypeError)
            /\ path' = "none"
            /\ pc' = "done"
       ELSE IF IsFacilitatorMode(mode)
       THEN /\ pc' = "verify-delegated"
            /\ UNCHANGED <<result, path>>
       ELSE /\ result' = verifyPaymentDirect(p, now)
            /\ path' = "local"
            /\ pc' = IF result'.kind = "VerifyResult" /\ result'.isValid
                     THEN "sending" ELSE "done"
    /\ timer' = IF pc' = "verify-delegated" THEN "armed" ELSE "off"
    /\ UNCHANGED <<mode, settlementWallet, now, delegate, chain,
                   submissions, usedNonces, replay>>

\* verifyPayment up to its first await (facilitator mode) or to its end.
CallVerifyPayment(p) ==
    /\ UNCHANGED sent
    /\ UNCHANGED error
    /\ UNCHANGED response
    /\ UNCHANGED env
    /\ UNCHANGED txCount
    /\ UNCHANGED invocations
    /\ UNCHANGED engine
    /\ UNCHANGED options
    /\ pc = "idle"
    /\ op' = "verify"
    /\ payload' = p
    /\ IF ~p.present
       THEN /\ result' = Thrown(PayloadTypeError)
            /\ path' = "none"
            /\ pc' = "done"
       ELSE IF IsFacilitatorMode(mode)
       THEN /\ pc' = "verify-delegated"
            /\ UNCHANGED <<result, path>>
       ELSE /\ result' = verifyPaymentDirect(p, now)
            /\ path' = "local"
            /\ pc' = "done"
    /\ timer' = IF pc' = "verify-delegated" THEN "armed" ELSE "off"
    /\ UNCHANGED <<mode, settlementWallet, now, delegate, chain,
                   submissions, usedNonces, replay>>

\* A caller outside the handlers calls verifyPayment.
VerifyPayment(p) == CallVerifyPayment(p) /\ UNCHANGED request

\* The timer may be pending only while fetch() is; a timeout needs it
\* armed, a body (2xx or not) needs the response, and a transport error can
\* strike in either phase.
FailureInPhase(failure, t) ==
    CASE failure = "timeout" -> t = "armed"
      [] failure = "non-2xx" -> t = "off"
      [] OTHER -> TRUE

\* fetch() resolved with the status line and headers of the facilitator's
\* response: callFacilitator clears the timer and goes on to read the body.
FacilitatorAnswers ==
    /\ UNCHANGED sent
    /\ UNCHANGED error
    /\ UNCHANGED response
    /\ UNCHANGED env
    /\ UNCHANGED txCount
    /\ UNCHANGED invocations
    /\ UNCHANGED request
    /\ UNCHANGED engine
    /\ UNCHANGED options
    /\ pc \in {"verify-delegated", "settle-delegated"}
    /\ timer = "armed"
    /\ timer' = "off"
    /\ UNCHANGED <<mode, settlementWallet, now, pc, op, payload, result,
                   delegate, path, chain, submissions, usedNonces, replay>>

\* callFacilitator('verify') returned the body of a 2xx answer.
FacilitatorVerifies(valid, withPayer) ==
    /\ UNCHANGED sent
    /\ UNCHANGED error
    /\ UNCHANGED env
    /\ UNCHANGED txCount
    /\ UNCHANGED invocations
    /\ UNCHANGED request
    /\ UNCHANGED engine
    /\ UNCHANGED options
    /\ pc = "verify-delegated"
    /\ timer = "off"
    /\ UNCHANGED timer
    /\ delegate' = "ok"
    /\ response' = FacilitatorVerifyBody(payload, valid, withPayer)
    /\ result' = verifyPaymentDelegated(response')
    /\ path' = "delegate"
    /\ pc' = "done"
    /\ UNCHANGED <<mode, settlementWallet, now, op, payload, chain,
                   submissions, usedNonces, replay>>

\* callFacilitator('verify') threw; verifyPayment falls back.
FacilitatorVerifyFails(failure) ==
    /\ UNCHANGED sent
    /\ UNCHANGED error
    /\ UNCHANGED response
    /\ UNCHANGED env
    /\ UNCHANGED txCount
    /\ UNCHANGED invocations
    /\ UNCHANGED request
    /\ UNCHANGED engine
    /\ UNCHANGED options
    /\ pc = "verify-delegated"
    /\ FailureInPhase(failure, timer)
    /\ timer' = "off"
    /\ delegate' = failure
    /\ result' = verifyPaymentFallback(payload, now, failure)
    /\ path' = "local"
    /\ pc' = "done"
    /\ UNCHANGED <<mode, settlementWallet, now, op, payload, chain,
                   submissions, usedNonces, replay>>

\* Where settlePayment stands once the start of settleOnChain has run.
AfterPrepare(r) == IF r.kind = "send" THEN "sending" ELSE "done"

\* settlePayment up to its first await.  In facilitator mode a missing
\* payload makes callFacilitator throw ahead of the request.
CallSettlePayment(p) ==
    /\ UNCHANGED sent
    /\ UNCHANGED error
    /\ UNCHANGED response
    /\ UNCHANGED env
    /\ UNCHANGED txCount
    /\ UNCHANGED invocations
    /\ UNCHANGED engine
    /\ UNCHANGED options
    /\ pc = "idle"
    /\ op' = "settle"
    /\ payload' = p
    /\ replay' = (p.authorization.nonce \in usedNonces)
    /\ IF IsFacilitatorMode(mode) /\ p.present
       THEN /\ pc' = "settle-delegated"
            /\ UNCHANGED <<result, path, delegate>>
       ELSE LET failure == IF IsFacilitatorMode(mode) THEN "throws"
                                                      ELSE "none"
                r == settlePaymentFallback(p, settlementWallet, failure)
            IN  /\ delegate' = failure
                /\ path' = "local"
                /\ pc' = AfterPrepare(r)
                /\ result' = IF r.kind = "send" THEN NoResult ELSE r
    /\ timer' = IF pc' = "settle-delegated" THEN "armed" ELSE "off"
    /\ UNCHANGED <<mode, settlementWallet, now, chain, submissions,
                   usedNonces>>

\* A caller outside the handlers calls settlePayment.
SettlePayment(p) == CallSettlePayment(p) /\ UNCHANGED request

\* callFacilitator('settle') returned the body of a 2xx answer; the
\* facilitator settled the authorization on chain or did not.
FacilitatorSettles(settled) ==
    /\ UNCHANGED sent
    /\ UNCHANGED error
    /\ UNCHANGED env
    /\ UNCHANGED txCount
    /\ UNCHANGED invocations
    /\ UNCHANGED request
    /\ UNCHANGED engine
    /\ UNCHANGED options
    /\ pc = "settle-delegated"
    /\ timer = "off"
    /\ UNCHANGED timer
    /\ settled => NonceUnused(payload)
    /\ delegate' = "ok"
    /\ response' = FacilitatorSettleBody(payload, settled)
    /\ result' = settlePaymentDelegated(response')
    /\ path' = "delegate"
    /\ submissions' = IF settled THEN submissions + 1 ELSE submissions
    /\ usedNonces' = IF settled
                     THEN usedNonces \cup {payload.authorization.nonce}
                     ELSE usedNonces
    /\ pc' = "done"
    /\ UNCHANGED <<mode, settlementWallet, now, op, payload, chain, replay>>

\* callFacilitator('settle') threw (transport error, timeout, non-2xx); the
\* facilitator may have submitted the authorization before the call failed,
\* and that transaction may have been mined.  settlePayment falls back.
FacilitatorSettleFails(failure, submitted, mined) ==
    /\ UNCHANGED sent
    /\ UNCHANGED error
    /\ UNCHANGED response
    /\ UNCHANGED env
    /\ UNCHANGED txCount
    /\ UNCHANGED invocations
    /\ UNCHANGED request
    /\ UNCHANGED engine
    /\ UNCHANGED options
    /\ pc = "settle-delegated"
    /\ FailureInPhase(failure, timer)
    /\ timer' = "off"
    /\ mined => submitted /\ NonceUnused(payload)
    /\ submitted => payload.authorization.present
    /\ delegate' = failure
    /\ submissions' = IF submitted THEN submissions + 1 ELSE submissions
    /\ usedNonces' = IF mined
                     THEN usedNonces \cup {payload.authorization.nonce}
                     ELSE usedNonces
    /\ LET r == settlePaymentFallback(payload, settlementWallet, failure)
       IN  /\ path' = "local"
           /\ pc' = AfterPrepare(r)
           /\ result' = IF r.kind = "send" THEN NoResult ELSE r
    /\ UNCHANGED <<mode, settlementWallet, now, op, payload, chain, replay>>

\* usdcContract.transferWithAuthorization(...) threw: nothing was broadcast.
\* Arguments that are not addresses are rejected by the encoder.
SendThrows(e) ==
    /\ UNCHANGED sent
    /\ UNCHANGED response
    /\ UNCHANGED env
    /\ UNCHANGED txCount
    /\ UNCHANGED invocations
    /\ UNCHANGED request
    /\ UNCHANGED engine
    /\ UNCHANGED options
    /\ UNCHANGED timer
    /\ pc = "sending"
    /\ IF IsString(payload.authorization.from) /\ IsString(payload.authorization.to)
       THEN e \in ChainErrors
       ELSE e = InvalidArgument
    /\ chain' = "send-threw"
    /\ error' = e
    /\ result' = settleFromError(payload, error')
    /\ pc' = "done"
    /\ UNCHANGED <<mode, settlementWallet, now, op, payload, delegate, path,
                   submissions, usedNonces, replay>>

\* usdcContract.transferWithAuthorization(...) returned the broadcast tx.
SendBroadcasts ==
    /\ UNCHANGED error
    /\ UNCHANGED response
    /\ UNCHANGED env
    /\ UNCHANGED txCount
    /\ UNCHANGED invocations
    /\ UNCHANGED request
    /\ UNCHANGED engine
    /\ UNCHANGED options
    /\ UNCHANGED timer
    /\ pc = "sending"
    /\ IsString(payload.authorization.from) /\ IsString(payload.authorization.to)
    /\ submissions' = submissions + 1
    /\ sent' = transferWithAuthorization(payload, engine.requirements)
    /\ pc' = "waiting"
    /\ UNCHANGED <<mode, settlementWallet, now, op, payload, result, delegate,
                   path, chain, usedNonces, replay>>

\* tx.wait() returned the receipt.
WaitReturns(status) ==
    /\ UNCHANGED sent
    /\ UNCHANGED error
    /\ UNCHANGED response
    /\ UNCHANGED env
    /\ UNCHANGED txCount
    /\ UNCHANGED invocations
    /\ UNCHANGED request
    /\ UNCHANGED engine
    /\ UNCHANGED options
    /\ UNCHANGED timer
    /\ pc = "waiting"
    /\ status = 1 => NonceUnused(payload)
    /\ chain' = IF status = 1 THEN "success" ELSE "reverted"
    /\ usedNonces' = IF status = 1
                     THEN usedNonces \cup {payload.authorization.nonce}
                     ELSE usedNonces
    /\ result' = settleFromReceipt(payload, status)
    /\ pc' = "done"
    /\ UNCHANGED <<mode, settlementWallet, now, op, payload, delegate, path,
                   submissions, replay>>

\* tx.wait() threw.
WaitThrows(e) ==
    /\ UNCHANGED sent
    /\ UNCHANGED response
    /\ UNCHANGED env
    /\ UNCHANGED txCount
    /\ UNCHANGED invocations
    /\ UNCHANGED request
    /\ UNCHANGED engine
    /\ UNCHANGED options
    /\ UNCHANGED timer
    /\ pc = "waiting"
    /\ e \in ChainErrors
    /\ chain' = "wait-threw"
    /\ error' = e
    /\ result' = settleFromError(payload, error')
    /\ pc' = "done"
    /\ UNCHANGED <<mode, settlementWallet, now, op, payload, delegate, path,
                   submissions, usedNonces, replay>>

Next ==
    \/ Tick
    \/ Return
    \/ \E p \in FacadeInputs : VerifyPayment(p)
    \/ FacilitatorAnswers
    \/ \E valid, withPayer \in BOOLEAN : FacilitatorVerifies(valid, withPayer)
    \/ \E failure \in FacilitatorFailures : FacilitatorVerifyFails(failure)
    \/ \E p \in FacadeInputs : SettlePayment(p)
    \/ \E settled \in BOOLEAN : FacilitatorSettles(settled)
    \/ \E failure \in FacilitatorFailures, submitted, mined \in BOOLEAN :
          FacilitatorSettleFails(failure, submitted, mined)
    \/ \E e \in ChainErrors \cup {InvalidArgument} : SendThrows(e)
    \/ SendBroadcasts
    \/ \E status \in {0, 1} : WaitReturns(status)
    \/ \E e \in ChainErrors : WaitThrows(e)

Spec == Init /\ [][Next]_vars

\* The runtime fires a pending timer: callFacilitator's abort cannot be
\* postponed for ever while the timer stays armed.  Nothing obliges the
\* facilitator or the chain to answer.
TimerFires ==
    \/ FacilitatorVerifyFails("timeout")
    \/ \E submitted, mined \in BOOLEAN :
          FacilitatorSettleFails("timeout", submitted, mined)

SpecLive == Spec /\ WF_vars(TimerFires)

-----------------------------------------------------------------------------
(* SpecHandler: one request to a paid handler *)

facade == <<mode, settlementWallet, now, pc, op, payload, result, delegate,
            path, chain, submissions, usedNonces, replay, timer, options,
            engine, invocations, txCount, env, response, error, sent>>

Handlers == {"query", "activity", "feedback"}

PaymentSubmitted == "payment-submitted"

\* The server always names the settlement mode (index.ts).
HandlerOptions ==
    {ServerOptions(sm, pk, Absent) :
        sm \in {Text("direct"), Text("facilitator")}, pk \in {Absent, GoodKey}}

\* No payment, a well-signed payment of the price, and the same payment
\* with a signature that cannot be parsed.
HandlerPayments ==
    {p \in FacadeInputs :
        \/ ~p.present
        \/ /\ p.authorization.present
           /\ p.authorization.to = Addr("payee", "lower")
           /\ p.authorization.value = Str(<<"1", "0">>)
           /\ p.authorization.nonce = "n1"}

\* input: whether the handler's own validation accepts the request.
\* parts: the parts of an A2A message, all objects ("text") or with an
\* element that is not one, such as null ("malformed"): reading p.kind of
\* it throws a TypeError.
RequestBodies ==
    [payment : HandlerPayments,
     paymentStatus : {PaymentSubmitted, "undefined"},
     input : {"ok", "rejected"},
     parts : {"text", "malformed"}]

Respond(r, status) == [r EXCEPT !.pc = "responded", !.status = status]

Log(r, e) == [r EXCEPT !.events = Append(@, e)]

Answer(r, a) == [r EXCEPT !.answer = a]

PaymentRequired == "Payment required for service"
VerificationFailed == "Payment verification failed"

\* createPaymentRequiredResponse(), as the handlers send it.
createPaymentRequiredResponse ==
    [kind |-> "payment-required", accepts |-> <<engine.requirements>>,
     error |-> PaymentRequired]

\* The body of the 402 that answers an invalid verification.
verificationFailedResponse(res) ==
    [kind |-> "failure", success |-> FALSE,
     error |-> IF res.invalidReason = "undefined" THEN VerificationFailed
               ELSE res.invalidReason]

\* A handler that goes on whatever the verdict.
verdictStatusIgnored(res) == IF res.kind = "thrown" THEN 500 ELSE 0

\* What the handler answers to the outcome of verifyPayment: 500 from its
\* outer catch, 402 for an invalid payment, nothing yet (0) for a valid one.
verdictStatus(res) ==
    IF res.kind = "thrown" THEN 500
    ELSE IF ~res.isValid THEN 402
    ELSE 0

\* The payment gate: !paymentPayload || paymentStatus !== 'payment-submitted'.
paymentGate(body) ==
    ~body.payment.present \/ body.paymentStatus # PaymentSubmitted

\* The handler up to its first await: the query handler reads the message
\* parts, then the payment gate, then verifyPayment.  What the reading
\* throws reaches the handler's outer catch.
Receive(h, body) ==
    /\ request.pc = "none"
    /\ pc = "idle"
    /\ LET r == [NoRequest EXCEPT !.handler = h, !.body = body]
       IN  IF h = "query" /\ body.parts = "malformed"
           THEN /\ request' = Respond(Log(r, "threw"), 500)
                /\ UNCHANGED facade
           ELSE IF paymentGate(body)
           THEN /\ request' = Answer(Respond(r, 402),
                                      createPaymentRequiredResponse)
                /\ UNCHANGED facade
           ELSE /\ CallVerifyPayment(body.payment)
                /\ request' = [Log(r, "verify") EXCEPT !.pc = "verifying"]

\* verifyPayment returned: the handler answers an invalid payment and a
\* request its validation rejects, and otherwise starts the paid work.
VerifyReturns ==
    /\ request.pc = "verifying"
    /\ pc = "done"
    /\ TakeResult
    /\ LET status == verdictStatus(result)
           valid == result.kind = "VerifyResult" /\ result.isValid
           logged == Log(request, IF valid THEN "valid" ELSE "invalid")
       IN  request' =
             IF status = 402
             THEN Answer(Respond(logged, status),
                         verificationFailedResponse(result))
             ELSE IF status # 0 THEN Respond(logged, status)
             ELSE IF request.handler # "query" /\ request.body.parts = "malformed"
             THEN Respond(Log(logged, "threw"), 500)
             ELSE IF request.body.input = "rejected"
             THEN Respond(Log(logged, "rejected"), 400)
             ELSE [logged EXCEPT !.pc = "working"]

\* The statuses with which each handler gives up during the paid work: a
\* lookup that finds nothing, a collaborator that is down or throws, a
\* late validation.
WorkFailures(h) ==
    CASE h = "query" -> {400, 404, 500, 503}
      [] h = "activity" -> {400, 401, 404, 500}
      [] OTHER -> {404, 500}

WorkFails(status) ==
    /\ request.pc = "working"
    /\ status \in WorkFailures(request.handler)
    /\ request' = Respond(Log(request, "failed"), status)
    /\ UNCHANGED facade

\* The paid work completed: the handler calls settlePayment.
WorkCompletes ==
    /\ request.pc = "working"
    /\ pc = "idle"
    /\ CallSettlePayment(request.body.payment)
    /\ request' = [Log(Log(request, "work"), "settle") EXCEPT !.pc = "settling"]

\* Mutant: a handler that fails the request when the settlement failed.
settledStatusStrict(h, res) ==
    IF res.kind = "thrown" THEN (IF h = "query" THEN 200 ELSE 500)
    ELSE IF res.success THEN 200 ELSE 500

\* The status after settlePayment: 200 whatever the result says.  Only the
\* query handler catches a settlePayment that throws.
settledStatus(h, res) ==
    IF res.kind = "thrown" /\ h # "query" THEN 500 ELSE 200

\* The body of the 200: the delivered work and the settlement as it went.
workResponse(res) ==
    [kind |-> "work", success |-> TRUE,
     settlement |-> IF res.kind = "thrown" THEN FALSE ELSE res.success]

\* settlePayment returned: 200 with the settlement in the body.
SettleReturns ==
    /\ request.pc = "settling"
    /\ pc = "done"
    /\ TakeResult
    /\ LET status == settledStatus(request.handler, result)
       IN  request' = IF status = 200
                      THEN Answer(Respond(request, status), workResponse(result))
                      ELSE Respond(request, status)

InitHandler == Init /\ options \in HandlerOptions

NextHandler ==
    \/ \E h \in Handlers, body \in RequestBodies : Receive(h, body)
    \/ VerifyReturns
    \/ \E status \in {400, 401, 404, 500, 503} : WorkFails(status)
    \/ WorkCompletes
    \/ SettleReturns
    \/ Tick
    \/ FacilitatorAnswers
    \/ \E valid, withPayer \in BOOLEAN : FacilitatorVerifies(valid, withPayer)
    \/ \E failure \in FacilitatorFailures : FacilitatorVerifyFails(failure)
    \/ \E settled \in BOOLEAN : FacilitatorSettles(settled)
    \/ \E failure \in FacilitatorFailures, submitted, mined \in BOOLEAN :
          FacilitatorSettleFails(failure, submitted, mined)
    \/ \E e \in ChainErrors \cup {InvalidArgument} : SendThrows(e)
    \/ SendBroadcasts
    \/ \E status \in {0, 1} : WaitReturns(status)
    \/ \E e \in ChainErrors : WaitThrows(e)

SpecHandler == InitHandler /\ [][NextHandler]_vars

-----------------------------------------------------------------------------
(* SpecConcurrent: two calls in flight on one engine in direct mode.  The
   chain is at its best: it accepts every transaction whose account nonce
   is the next one and executes it successfully. *)

ConcurrentOptions ==
    {ServerOptions(Text("direct"), pk, Absent) : pk \in {Absent, GoodKey}}

\* Each call has a payload of its own: the authorizations differ in their
\* nonce.
PayloadsOf(i) ==
    {p \in FacadeInputs :
        /\ p.authorization.present
        /\ p.authorization.to = Addr("payee", "lower")
        /\ p.authorization.nonce = IF i = 1 THEN "n1" ELSE "n2"}

NonceExpired == ChainError({"nonce"}, FALSE, "NONCE_EXPIRED")

ConcurrentVerify(i, p) ==
    /\ invocations[i].pc = "idle"
    /\ invocations' =
          [invocations EXCEPT ![i] =
              [@ EXCEPT !.pc = "done", !.op = "verify", !.payload = p,
                        !.result = verifyPaymentDirect(p, now)]]
    /\ UNCHANGED <<mode, settlementWallet, now, pc, op, payload, result,
                   delegate, path, chain, submissions, usedNonces, replay,
                   timer, options, engine, request, txCount, env,
                   response, error, sent>>

\* settlePayment up to the call of the contract method.
ConcurrentSettle(i, p) ==
    /\ invocations[i].pc = "idle"
    /\ LET r == settlePaymentFallback(p, settlementWallet, "none")
       IN  invocations' =
             [invocations EXCEPT ![i] =
                 [@ EXCEPT !.pc = IF r.kind = "send" THEN "populating"
                                  ELSE "done",
                           !.op = "settle", !.payload = p,
                           !.result = IF r.kind = "send" THEN NoResult ELSE r]]
    /\ UNCHANGED <<mode, settlementWallet, now, pc, op, payload, result,
                   delegate, path, chain, submissions, usedNonces, replay,
                   timer, options, engine, request, txCount, env,
                   response, error, sent>>

\* The wallet fills in the transaction: it asks the node for the account's
\* transaction count, pending transactions included, and signs with it.
WalletReadsNonce(i) ==
    /\ invocations[i].pc = "populating"
    /\ invocations' =
          [invocations EXCEPT ![i] = [@ EXCEPT !.pc = "signed",
                                              !.txNonce = txCount]]
    /\ UNCHANGED <<mode, settlementWallet, now, pc, op, payload, result,
                   delegate, path, chain, submissions, usedNonces, replay,
                   timer, options, engine, request, txCount, env,
                   response, error, sent>>

\* The node takes the signed transaction: its nonce is the account's next.
NodeAccepts(i) ==
    /\ invocations[i].pc = "signed"
    /\ invocations[i].txNonce = txCount
    /\ txCount' = txCount + 1
    /\ invocations' = [invocations EXCEPT ![i] = [@ EXCEPT !.pc = "waiting"]]
    /\ UNCHANGED <<mode, settlementWallet, now, pc, op, payload, result,
                   delegate, path, chain, submissions, usedNonces, replay,
                   timer, options, engine, request, env,
                   response, error, sent>>

\* The node refuses a transaction whose nonce another transaction of the
\* account has taken; the contract call throws.
NodeRejects(i) ==
    /\ invocations[i].pc = "signed"
    /\ invocations[i].txNonce < txCount
    /\ invocations' =
          [invocations EXCEPT ![i] =
              [@ EXCEPT !.pc = "done",
                        !.result = settleFromError(invocations[i].payload,
                                                   NonceExpired)]]
    /\ UNCHANGED <<mode, settlementWallet, now, pc, op, payload, result,
                   delegate, path, chain, submissions, usedNonces, replay,
                   timer, options, engine, request, txCount, env,
                   response, error, sent>>

\* tx.wait() returns the receipt of the executed transaction.
Mined(i) ==
    /\ invocations[i].pc = "waiting"
    /\ invocations' =
          [invocations EXCEPT ![i] =
              [@ EXCEPT !.pc = "done",
                        !.result = settleFromReceipt(invocations[i].payload, 1)]]
    /\ UNCHANGED <<mode, settlementWallet, now, pc, op, payload, result,
                   delegate, path, chain, submissions, usedNonces, replay,
                   timer, options, engine, request, txCount, env,
                   response, error, sent>>

InitConcurrent == Init /\ options \in ConcurrentOptions

NextConcurrent ==
    \/ \E i \in Invocations : \E p \in PayloadsOf(i) : ConcurrentVerify(i, p)
    \/ \E i \in Invocations : \E p \in PayloadsOf(i) : ConcurrentSettle(i, p)
    \/ \E i \in Invocations : WalletReadsNonce(i)
    \/ \E i \in Invocations : NodeAccepts(i)
    \/ \E i \in Invocations : NodeRejects(i)
    \/ \E i \in Invocations : Mined(i)

SpecConcurrent == InitConcurrent /\ [][NextConcurrent]_vars

-----------------------------------------------------------------------------
(* SpecRepeat: one engine verifies payloads more than once.  Each call
   records the clock reading at which its result was produced and the path
   that produced it. *)

RepeatOptions ==
    {ServerOptions(sm, Absent, Absent) : sm \in {Text("direct"), Text("facilitator")}}

RepeatInputs ==
    {p \in FacadeInputs :
        /\ p.authorization.present
        /\ p.authorization.to = Addr("payee", "lower")
        /\ p.authorization.nonce = "n1"}

\* verifyPayment up to its first await (facilitator mode) or to its end.
RepeatVerify(i, p) ==
    /\ invocations[i].pc = "idle"
    /\ invocations' =
          [invocations EXCEPT ![i] =
              IF IsFacilitatorMode(mode)
              THEN [@ EXCEPT !.pc = "verify-delegated", !.op = "verify",
                             !.payload = p]
              ELSE [@ EXCEPT !.pc = "done", !.op = "verify", !.payload = p,
                             !.at = now, !.path = "local",
                             !.result = verifyPaymentDirect(p, now)]]
    /\ UNCHANGED <<mode, settlementWallet, now, pc, op, payload, result,
                   delegate, path, chain, submissions, usedNonces, replay,
                   timer, options, engine, request, txCount, env,
                   response, error, sent>>

\* callFacilitator('verify') returned the body of a 2xx answer.
RepeatFacilitatorVerifies(i, valid, withPayer) ==
    /\ invocations[i].pc = "verify-delegated"
    /\ invocations' =
          [invocations EXCEPT ![i] =
              [@ EXCEPT !.pc = "done", !.at = now, !.path = "delegate",
                        !.result = verifyPaymentDelegated(
                                       FacilitatorVerifyBody(invocations[i].payload,
                                                             valid, withPayer))]]
    /\ UNCHANGED <<mode, settlementWallet, now, pc, op, payload, result,
                   delegate, path, chain, submissions, usedNonces, replay,
                   timer, options, engine, request, txCount, env,
                   response, error, sent>>

\* callFacilitator('verify') threw; verifyPayment falls back.
RepeatFacilitatorVerifyFails(i, failure) ==
    /\ invocations[i].pc = "verify-delegated"
    /\ invocations' =
          [invocations EXCEPT ![i] =
              [@ EXCEPT !.pc = "done", !.at = now, !.path = "local",
                        !.result = verifyPaymentFallback(invocations[i].payload,
                                                         now, failure)]]
    /\ UNCHANGED <<mode, settlementWallet, now, pc, op, payload, result,
                   delegate, path, chain, submissions, usedNonces, replay,
                   timer, options, engine, request, txCount, env,
                   response, error, sent>>

InitRepeat == Init /\ options \in RepeatOptions

NextRepeat ==
    \/ Tick
    \/ \E i \in Invocations : \E p \in RepeatInputs : RepeatVerify(i, p)
    \/ \E i \in Invocations : \E valid, withPayer \in BOOLEAN :
          RepeatFacilitatorVerifies(i, valid, withPayer)
    \/ \E i \in Invocations : \E failure \in FacilitatorFailures :
          RepeatFacilitatorVerifyFails(i, failure)

SpecRepeat == InitRepeat /\ [][NextRepeat]_vars

-----------------------------------------------------------------------------
(* SpecSettle: settlePayment in direct mode with a settlement wallet, on
   authorizations that verification accepts and on ones it rejects. *)

SettleOptions == {ServerOptions(Text("direct"), GoodKey, Absent)}

SettleInputs ==
    { Payload("base-sepolia",
              Authorization(Addr("payer", "checksum"), t, v, Str(<<"1">>), vb,
                            "n1"),
              SignatureOf(k, Authorization(Addr("payer", "checksum"), t, v,
                                           Str(<<"1">>), vb, "n1"))) :
        t \in {Addr("payee", "lower"), Addr("other", "lower")},
        v \in {Str(<<"9">>), Str(<<"1", "0">>), Str(<<"1", "1">>)},
        vb \in {Str(<<"1">>), Str(<<"3">>)},
        k \in {"payer", "other"} }

InitSettle == Init /\ options \in SettleOptions

NextSettle ==
    \/ Tick
    \/ Return
    \/ \E p \in SettleInputs : SettlePayment(p)
    \/ \E e \in ChainErrors : SendThrows(e)
    \/ SendBroadcasts
    \/ \E status \in {0, 1} : WaitReturns(status)
    \/ \E e \in ChainErrors : WaitThrows(e)

SpecSettle == InitSettle /\ [][NextSettle]_vars

-----------------------------------------------------------------------------
(* SpecConstruct: new MerchantExecutor(options) *)

\* No engine yet.
Unconstructed ==
    /\ sent = NoCall
    /\ error = NoError
    /\ response = NoResult
    /\ txCount = 0
    /\ invocations = [i \in Invocations |-> NoInvocation]
    /\ request = NoRequest
    /\ engine = NoEngine
    /\ timer = "off"
    /\ mode = "none"
    /\ settlementWallet = FALSE
    /\ now = 1
    /\ pc = "new"
    /\ op = "none"
    /\ payload = MissingPayload
    /\ result = NoResult
    /\ delegate = "none"
    /\ path = "none"
    /\ chain = "none"
    /\ submissions = 0
    /\ usedNonces = {}
    /\ replay = FALSE

InitConstruct == options \in ConstructOptions /\ env = NoEnv /\ Unconstructed

Construct ==
    /\ UNCHANGED sent
    /\ UNCHANGED error
    /\ UNCHANGED response
    /\ UNCHANGED env
    /\ UNCHANGED txCount
    /\ UNCHANGED invocations
    /\ UNCHANGED request
    /\ pc = "new"
    /\ engine' = constructor(options)
    /\ IF engine'.kind = "engine"
       THEN /\ mode' = engine'.mode
            /\ settlementWallet' = engine'.settlementWallet
            /\ pc' = "idle"
       ELSE /\ pc' = "failed"
            /\ UNCHANGED <<mode, settlementWallet>>
    /\ UNCHANGED <<options, timer, now, op, payload, result, delegate, path,
                   chain, submissions, usedNonces, replay>>

NextConstruct == Construct

SpecConstruct == InitConstruct /\ [][NextConstruct]_vars

-----------------------------------------------------------------------------
(* SpecServer: index.ts builds the engine of the query endpoint from the
   environment.  The engines of the activity and feedback endpoints are
   built from the same settings, with their own price and resource. *)

Environments ==
    [SETTLEMENT_MODE : {Absent, Text("direct"), Text("facilitator"),
                        Text("local")},
     PRIVATE_KEY : {Absent, GoodKey, BadKey},
     FACILITATOR_URL : FacilitatorUrls,
     PAYMENT_NETWORK : {Absent, Text("base-sepolia"), Text("base")},
     QUERY_PRICE : {Absent, UnitPrice}]

PAYMENT_NETWORK(e) == OrElse(e.PAYMENT_NETWORK, Text("base-sepolia")).s

QUERY_PRICE(e) ==
    IF e.QUERY_PRICE = Absent THEN Decimal(1, 2) ELSE e.QUERY_PRICE

USDC_CONTRACTS(network) ==
    CASE network = "base" -> Text("0x833589fCD6eDb6E08f4c7C32D4f71b54bdA02913")
      [] network = "base-sepolia" -> Text(requirements.asset)
      [] OTHER -> Absent

CHAIN_IDS(network) ==
    CASE network = "base" -> Number(OtherChainId)
      [] network = "base-sepolia" -> Number(ChainId)
      [] OTHER -> Absent

queryMerchantOptions(e) ==
    [network |-> PAYMENT_NETWORK(e),
     payToAddress |-> requirements.payTo,
     resourceUrl |-> Text("http://localhost:3000/query"),
     price |-> QUERY_PRICE(e),
     facilitatorUrl |-> e.FACILITATOR_URL,
     settlementMode |-> IF e.SETTLEMENT_MODE = Text("local")
                        THEN Text("direct") ELSE Text("facilitator"),
     rpcUrl |-> Text("http://localhost:8545"),
     privateKey |-> e.PRIVATE_KEY,
     assetAddress |-> USDC_CONTRACTS(PAYMENT_NETWORK(e)),
     assetName |-> Text("USDC"),
     chainId |-> OrElse(CHAIN_IDS(PAYMENT_NETWORK(e)), Number(ChainId))]

\* No options yet: index.ts has not run.
NoOptions == [network |-> "none"]

InitServer ==
    /\ env \in Environments
    /\ options = NoOptions
    /\ Unconstructed

\* const queryMerchantExecutor = new MerchantExecutor(queryMerchantOptions)
Start ==
    /\ pc = "new"
    /\ options' = queryMerchantOptions(env)
    /\ engine' = constructor(options')
    /\ IF engine'.kind = "engine"
       THEN /\ mode' = engine'.mode
            /\ settlementWallet' = engine'.settlementWallet
            /\ pc' = "idle"
       ELSE /\ pc' = "failed"
            /\ UNCHANGED <<mode, settlementWallet>>
    /\ UNCHANGED <<env, timer, now, op, payload, result, delegate, path,
                   chain, submissions, usedNonces, replay, request,
                   invocations, txCount, response, error, sent>>

NextServer == Start

SpecServer == InitServer /\ [][NextServer]_vars

-----------------------------------------------------------------------------
(* SpecPrice: the engine of each price *)

PriceNumerators == {1, 7, 15, 19, 41, 57, 82, 164, 249, 991}
PriceDecimals == 0..8

Prices == {Decimal(n, d) : n \in PriceNumerators, d \in PriceDecimals}

InitPrice ==
    /\ options \in {[DirectOptions EXCEPT !.price = price] : price \in Prices}
    /\ env = NoEnv
    /\ Unconstructed

SpecPrice == InitPrice /\ [][NextConstruct]_vars

-----------------------------------------------------------------------------
(* What each check of the local verification requires of a payload, stated  *)
(* on the payload alone.                                                     *)

Auth == payload.authorization

LocalVerifyDone ==
    /\ pc = "done" /\ op = "verify" /\ path = "local"
    /\ payload.present /\ result.kind = "VerifyResult"

FailsPresence == ~Auth.present \/ payload.signature.kind = "absent"
FailsNetwork == payload.network # "base-sepolia"
FailsRecipient == ~(IsString(Auth.to) /\ Auth.to.id = "payee")
FailsAmount == ~BigIntOf(Auth.value).ok \/ BigIntOf(Auth.value).n < 10
FailsTime ==
    \/ NumberOrZero(Auth.validAfter).nan
    \/ NumberOrZero(Auth.validBefore).nan
    \/ NumberOrZero(Auth.validAfter).n > now
    \/ NumberOrZero(Auth.validBefore).n <= now

\* The signature is the declared payer's signature over exactly this
\* authorization under the asset's domain.
SignedByDeclaredPayer ==
    /\ payload.signature.kind = "ecdsa"
    /\ Encodable(Auth)
    /\ payload.signature.signer = Auth.from.id
    /\ payload.signature.hash =
         [domain |-> [name |-> "USDC", version |-> "2", chainId |-> 84532,
                      verifyingContract |-> "0x036CbD53842c5426634e7929541eC2318f3dCF7e"],
          from |-> Auth.from.id, to |-> Auth.to.id,
          value |-> BigIntOf(Auth.value).n,
          validAfter |-> BigIntOf(Auth.validAfter).n,
          validBefore |-> BigIntOf(Auth.validBefore).n,
          nonce |-> Auth.nonce]

EarliestFailingCheck ==
    CASE FailsPresence -> 1
      [] FailsNetwork -> 2
      [] FailsRecipient -> 3
      [] FailsAmount -> 4
      [] FailsTime -> 5
      [] OTHER -> 6

\* The check a reported reason comes from (the TypeError is raised by the
\* recipient comparison).
CheckOfReason(reason) ==
    CASE reason = MissingData -> 1
      [] reason = NetworkMismatch -> 2
      [] reason \in {RecipientMismatch, ToLowerCaseTypeError} -> 3
      [] reason \in {AmountTooLow, InvalidAmount} -> 4
      [] reason \in {InvalidTiming, NotYetValid, Expired} -> 5
      [] reason \in {SignatureMismatch, SignatureFailed} -> 6
      [] OTHER -> 0

-----------------------------------------------------------------------------
C2_ValidOnlyIfSignedByPayer ==
    LocalVerifyDone =>
        /\ result.isValid =>
              (SignedByDeclaredPayer /\ result.payer.id = Auth.from.id)
        /\ (EarliestFailingCheck = 6 /\ ~SignedByDeclaredPayer) =>
              /\ ~result.isValid
              /\ result.invalidReason =
                   IF payload.signature.kind = "ecdsa" /\ Encodable(Auth)
                   THEN SignatureMismatch ELSE SignatureFailed

\* C2 witness: a payer written in lower case, whose signature recovers to
\* the checksummed form of the same account, verifies.
C2_Witness ==
    /\ LocalVerifyDone /\ result.isValid
    /\ Auth.from = Addr("payer", "lower")
    /\ result.payer = Addr("payer", "checksum")

\* C3: with every other check passed, an authorized amount equal to or above
\* the required amount verifies and an amount below it fails with the
\* amount-insufficiency reason.
C3_AmountBoundary ==
    (/\ LocalVerifyDone
     /\ ~FailsPresence /\ ~FailsNetwork /\ ~FailsRecipient /\ ~FailsTime
     /\ SignedByDeclaredPayer) =>
        IF BigIntOf(Auth.value).n >= BigIntOf(requirements.maxAmountRequired).n
        THEN result.isValid
        ELSE ~result.isValid /\ result.invalidReason = AmountTooLow

\* C3 witness: the authorized amount is exactly the required amount and the
\* payload verifies.
C3_Witness ==
    /\ LocalVerifyDone
    /\ Auth.value = requirements.maxAmountRequired
    /\ result.isValid

OtherThanTimePass ==
    /\ LocalVerifyDone
    /\ ~FailsPresence /\ ~FailsNetwork /\ ~FailsRecipient /\ ~FailsAmount
    /\ SignedByDeclaredPayer

\* C4 as claimed: with every other check passed, validBefore <= now gives the
\* expired reason, validAfter > now the not-yet-valid reason, and
\* validAfter <= now < validBefore verifies.
C4_Original ==
    OtherThanTimePass =>
        /\ NumberOrZero(Auth.validBefore).n <= now =>
              (~result.isValid /\ result.invalidReason = Expired)
        /\ NumberOrZero(Auth.validAfter).n > now =>
              (~result.isValid /\ result.invalidReason = NotYetValid)
        /\ (NumberOrZero(Auth.validAfter).n <= now
            /\ now < NumberOrZero(Auth.validBefore).n) => result.isValid

\* C4 as amended: with every other check passed, validAfter > now gives the
\* not-yet-valid reason (also when validBefore <= now), validAfter <= now
\* with validBefore <= now gives the expired reason, and
\* validAfter <= now < validBefore verifies.
C4_TimeWindow ==
    OtherThanTimePass =>
        /\ NumberOrZero(Auth.validAfter).n > now =>
              (~result.isValid /\ result.invalidReason = NotYetValid)
        /\ (NumberOrZero(Auth.validAfter).n <= now
            /\ NumberOrZero(Auth.validBefore).n <= now) =>
              (~result.isValid /\ result.invalidReason = Expired)
        /\ (NumberOrZero(Auth.validAfter).n <= now
            /\ now < NumberOrZero(Auth.validBefore).n) => result.isValid

\* C4 witness: validBefore equal to the clock reading is expired.
C4_Witness ==
    /\ OtherThanTimePass
    /\ NumberOrZero(Auth.validAfter).n <= now
    /\ NumberOrZero(Auth.validBefore).n = now
    /\ result.invalidReason = Expired

\* C5: with presence and network passed, a `to` that differs from the payee
\* only in letter case passes the recipient check, and any other `to`
\* (absent included) fails with the recipient-mismatch reason.
C5_RecipientCaseInsensitive ==
    (LocalVerifyDone /\ ~FailsPresence /\ ~FailsNetwork) =>
        IF IsString(Auth.to) /\ Auth.to.id = requirements.payTo.id
        THEN result.isValid \/ CheckOfReason(result.invalidReason) > 3
        ELSE ~result.isValid /\ result.invalidReason = RecipientMismatch

-----------------------------------------------------------------------------
(* Claims about the facade *)

SettleDone == pc = "done" /\ op = "settle"

ChainErrorReasons ==
    {InsufficientFunds, NonceError, ContractRevert, Rejected, NetworkError,
     RawMessage}

\* C6: in facilitator mode, when the delegated call fails, verify and settle
\* return a result computed by the local algorithm on the same payload: the
\* local verdict and reason for verify, a local settlement result for
\* settle, never the facilitator's error.
C6_FallbackGivesLocalResult ==
    (pc = "done" /\ mode = "facilitator" /\ delegate \in FacilitatorFailures) =>
        /\ path = "local"
        /\ op = "verify" =>
              /\ result.kind = "VerifyResult"
              /\ result.isValid = (EarliestFailingCheck = 6 /\ SignedByDeclaredPayer)
              /\ ~result.isValid =>
                    CheckOfReason(result.invalidReason) = EarliestFailingCheck
        /\ op = "settle" =>
              /\ result.kind = "SettlementResult"
              /\ result.errorReason \notin {FacilitatorTimedOut, FacilitatorFailed}
              /\ ~settlementWallet => result.errorReason = WalletNotConfigured
              /\ result.success => chain = "success"

\* C6 witness: the facilitator timed out and the local verifier accepted the
\* payload.
C6_Witness ==
    /\ pc = "done" /\ mode = "facilitator" /\ delegate = "timeout"
    /\ op = "verify" /\ result.kind = "VerifyResult" /\ result.isValid

\* C7: verify and settle never throw: every call ends in a result value.
C7_NeverThrows == pc = "done" => result.kind # "thrown"

\* C8: within one settle call the authorization is submitted on chain at
\* most once, whichever path carried it.
C8_SubmittedAtMostOnce == submissions <= 1

-----------------------------------------------------------------------------
Delegated == pc \in {"verify-delegated", "settle-delegated"}

\* C11: every delegated call is bounded by the timeout: a call waiting on the
\* facilitator, for the response or for its body, eventually leaves that
\* wait (and falls back), whatever the facilitator does.
C11_DelegatedCallBounded == Delegated ~> ~Delegated

\* C12: in direct mode neither verify nor settle contacts the facilitator: no
\* call is ever waiting on it, none has an outcome of a delegated call, and
\* every result comes from the local verifier or the local settler.
C12_DirectNeverDelegates ==
    mode = "direct" =>
        /\ ~Delegated
        /\ timer = "off"
        /\ delegate = "none"
        /\ path # "delegate"
        /\ (pc = "done" /\ result.kind # "thrown") => path = "local"

C12_Witness ==
    /\ mode = "direct"
    /\ pc = "done"
    /\ op = "settle"
    /\ path = "local"
    /\ chain = "success"
    /\ result.success

\* C13: the mode is the one the options select (the explicit setting if
\* there is one, else direct with a signing key and facilitator without,
\* whatever the facilitator URL), in every state, and no step changes it.
ModeAsConfigured ==
    mode = IF options.settlementMode # Absent THEN options.settlementMode.s
           ELSE IF options.privateKey # Absent THEN "direct"
           ELSE "facilitator"

C13_ModeFixedAtConstruction == [](ModeAsConfigured) /\ [][mode' = mode]_vars

C13_Witness ==
    /\ pc = "done"
    /\ op = "settle"
    /\ options.settlementMode = Absent
    /\ options.privateKey # Absent
    /\ options.facilitatorUrl # Absent
    /\ mode = "direct"

\* C14: every VerifyResult that verify returns, from the facilitator or from
\* the local verifier, names a payer exactly when it is valid and a reason
\* exactly when it is invalid.
C14_VerifyResultShape ==
    (pc = "done" /\ op = "verify" /\ result.kind = "VerifyResult") =>
        /\ result.isValid <=> result.payer # NoAddr
        /\ result.isValid <=> result.invalidReason = "undefined"

\* C15: every SettlementResult of the local settler carries a transaction
\* identifier exactly when the engine broadcast a transaction (whether it
\* then succeeded, reverted, or its confirmation wait failed), and every
\* SettlementResult carries a reason exactly when success is false.
Broadcast == chain \in {"success", "reverted", "wait-threw"}

C15_SettlementResultShape ==
    (SettleDone /\ result.kind = "SettlementResult") =>
        /\ path = "local" => (result.transaction # "undefined" <=> Broadcast)
        /\ result.errorReason # "undefined" <=> ~result.success

\* C16: within one request to a paid handler, settle is called at most once,
\* and only after verify was called and returned valid and the paid work
\* then completed; a request answered 200 has had settle called.  No
\* settle follows an invalid verification, a rejected input or paid work
\* that failed.
SettleCalls == {i \in DOMAIN request.events : request.events[i] = "settle"}

C16_VerifyWorkSettleOrder ==
    /\ Cardinality(SettleCalls) <= 1
    /\ SettleCalls # {} =>
          request.events = <<"verify", "valid", "work", "settle">>
    /\ (request.pc = "responded" /\ request.status = 200) => SettleCalls # {}

C16_Witness ==
    /\ request.pc = "responded"
    /\ request.handler = "feedback"
    /\ request.status = 200
    /\ request.events = <<"verify", "valid", "work", "settle">>

\* C17: concurrent calls with different payloads do not interfere: each call
\* that has finished returned what it returns when it runs alone on the
\* same engine, clock and chain (the local verdict for verify; for settle
\* the result of its preparation or, once sent, of a successful receipt).
AloneResult(i) ==
    LET c == invocations[i]
        r == settlePaymentFallback(c.payload, settlementWallet, "none")
    IN  IF c.op = "verify" THEN verifyPaymentDirect(c.payload, now)
        ELSE IF r.kind = "send" THEN settleFromReceipt(c.payload, 1)
        ELSE r

C17_ConcurrentCallsIndependent ==
    \A i \in Invocations :
        invocations[i].pc = "done" => invocations[i].result = AloneResult(i)

\* C18 (as stated): in facilitator mode, for a well-formed payload, the
\* validity verify returns equals the validity the local algorithm gives
\* for the same payload, requirement and clock reading.
WellFormed ==
    /\ payload.present
    /\ payload.authorization.present
    /\ Encodable(payload.authorization)
    /\ payload.signature.kind = "ecdsa"

VerifyAnswered ==
    /\ pc = "done" /\ op = "verify" /\ mode = "facilitator"
    /\ result.kind = "VerifyResult"
    /\ WellFormed

LocalValidity == verifyPaymentLocally(payload, requirements, now).isValid

C18_Original == VerifyAnswered => result.isValid = LocalValidity

\* C18 (amended): in facilitator mode, for a well-formed payload, the
\* validity verify returns equals the local algorithm's whenever the
\* delegated call failed; it can differ only when the facilitator answered,
\* and the result is then the facilitator's.
C18_AgreesUnlessFacilitatorAnswered ==
    VerifyAnswered =>
        \/ result.isValid = LocalValidity
        \/ delegate = "ok" /\ path = "delegate"

C18_Witness ==
    /\ VerifyAnswered
    /\ delegate = "non-2xx"
    /\ path = "local"
    /\ result.isValid
    /\ LocalValidity

\* C19: construction throws, and no engine exists, when the network is not
\* in the registry and the options lack the asset address or the asset
\* name; every engine that exists has an asset address and an asset name
\* that the options or the registry gave.
RegistryNetworks == {"base-sepolia", "base", "solana-devnet"}

Constructed == pc # "new"

C19_NoEngineWithoutAsset ==
    Constructed =>
        /\ (/\ options.network \notin RegistryNetworks
            /\ \/ ~IsTruthy(options.assetAddress)
               \/ ~IsTruthy(options.assetName))
           => (engine.kind = "thrown" /\ pc = "failed")
        /\ engine.kind = "engine" =>
              /\ IsTruthy(engine.asset)
              /\ IsTruthy(engine.assetName)
              /\ engine.asset \in {options.assetAddress,
                                   BUILT_IN_NETWORKS(options.network).assetAddress}
              /\ engine.assetName \in {options.assetName,
                                       BUILT_IN_NETWORKS(options.network).assetName}

C19_Witness ==
    /\ pc = "failed"
    /\ options.network \notin RegistryNetworks
    /\ options.assetAddress = Absent
    /\ options.assetName # Absent
    /\ engine = ConstructorThrew(AssetAddressMissing)

\* C20: construction in direct mode throws when no RPC endpoint or no
\* numeric chain id is available for the network, from the options or from
\* the registry, with a signing key or without: every engine in direct mode
\* has an RPC endpoint and a chain id available.
RpcAvailable ==
    IsTruthy(options.rpcUrl) \/ IsTruthy(getDefaultRpcUrl(options.network))

C20_DirectNeedsRpcAndChainId ==
    (Constructed /\ engine.kind = "engine" /\ engine.mode = "direct") =>
        /\ RpcAvailable
        /\ engine.chainId.t = "number"

\* C21: without a settlement wallet, local settlement, in direct mode and as
\* the fallback in facilitator mode, returns success = false with the reason
\* 'Settlement wallet not configured', broadcasts nothing and throws nothing.
LocalSettleDone == SettleDone /\ path = "local"

C21_NoWalletNoSettlement ==
    (LocalSettleDone /\ ~settlementWallet) =>
        /\ result.kind = "SettlementResult"
        /\ ~result.success
        /\ result.errorReason = WalletNotConfigured
        /\ result.transaction = "undefined"
        /\ chain = "none"

C21_Witness ==
    /\ LocalSettleDone
    /\ ~settlementWallet
    /\ mode = "facilitator"
    /\ delegate = "non-2xx"
    /\ payload.signature.kind = "ecdsa"
    /\ result.errorReason = WalletNotConfigured

\* C22: every unsuccessful SettlementResult of the local settler carries the
\* network id and, whenever the payload names one, the payer of the
\* authorization being settled, whichever check or error produced it.
C22_FailureKeepsPayerAndNetwork ==
    (LocalSettleDone /\ result.kind = "SettlementResult" /\ ~result.success) =>
        /\ result.network = requirements.network
        /\ result.payer = payload.authorization.from

\* C23: the required atomic amount is the decimal string of the price times
\* 1,000,000 truncated toward zero: exactly the first six decimal places of
\* the price, whatever the price.
PredictedAmount ==
    LET price == options.price
    IN  IF price.d <= 6 THEN price.n * Pow10(6 - price.d)
        ELSE price.n \div Pow10(price.d - 6)

C23_AmountIsTruncatedPrice ==
    (Constructed /\ engine.kind = "engine") =>
        engine.maxAmountRequired = toString(PredictedAmount)

\* C24 (as stated): verify is deterministic: two calls with the identical
\* payload and requirement at the same clock reading return identical
\* results.
SameVerifyInputs(i, j) ==
    /\ invocations[i].pc = "done" /\ invocations[i].op = "verify"
    /\ invocations[j].pc = "done" /\ invocations[j].op = "verify"
    /\ invocations[i].payload = invocations[j].payload
    /\ invocations[i].at = invocations[j].at

ServerStarted == pc = "idle" /\ engine.kind = "engine" /\ options # NoOptions

C25_SettlementModeSetting ==
    ServerStarted =>
        /\ env.SETTLEMENT_MODE = Text("direct") => mode = "direct"
        /\ env.SETTLEMENT_MODE \in {Absent, Text("facilitator")}
              => mode = "facilitator"

\* C26: in facilitator mode the local algorithm runs only when the
\* delegated call fails: the body of a 2xx answer is returned unchanged,
\* a negative one too, and that call then does no local verification and
\* no local settlement; wherever local code has run, the delegated call
\* had failed.
C26_AnswerReturnedUnchanged ==
    mode = "facilitator" =>
        /\ (pc = "done" /\ delegate = "ok") =>
              /\ result = response
              /\ path = "delegate"
              /\ chain = "none"
        /\ (path = "local" \/ pc \in {"sending", "waiting"} \/ chain # "none")
              => delegate \in FacilitatorFailures

\* C26 witness: the facilitator rejected a payment the local verifier
\* accepts, and the rejection is what the caller got.
C26_Witness ==
    /\ mode = "facilitator" /\ pc = "done" /\ op = "verify"
    /\ delegate = "ok"
    /\ WellFormed
    /\ LocalValidity
    /\ result = response
    /\ ~result.isValid

\* C27: in facilitator mode, when the delegated call fails and the local
\* algorithm fails too, the caller gets the local failure with the local
\* reason: for verify the local verdict on the payload, for settle a
\* failure whose reason is one of the local settler's; the facilitator's
\* error appears in no result.
LocalVerdict ==
    LET r == verifyPaymentLocally(payload, requirements, now)
    IN  IF r.kind = "thrown" THEN Invalid(r.message) ELSE r

LocalSettleReasons ==
    {WalletNotConfigured, MissingSettleData, MissingValue, InvalidValueFormat,
     InvalidSignatureFormat, TransactionReverted, PayloadTypeError}
    \cup ChainErrorReasons \cup {classifyError(InvalidArgument)}

DelegateFailed ==
    pc = "done" /\ mode = "facilitator" /\ delegate \in FacilitatorFailures

C27_BothFailLocalReason ==
    DelegateFailed =>
        /\ (op = "verify" /\ ~result.isValid) =>
              /\ result = LocalVerdict
              /\ result.invalidReason \notin {FacilitatorTimedOut, FacilitatorFailed}
        /\ (op = "settle" /\ ~result.success) =>
              /\ result.kind = "SettlementResult"
              /\ result.errorReason \in LocalSettleReasons
              /\ result.errorReason \notin {FacilitatorTimedOut, FacilitatorFailed}

\* C27 witness: the facilitator timed out and the local verifier rejected
\* the signature.
C27_Witness ==
    /\ DelegateFailed
    /\ delegate = "timeout"
    /\ op = "verify"
    /\ ~result.isValid
    /\ CheckOfReason(result.invalidReason) = 6

\* C28: local settlement checks, in this order, that a wallet is
\* configured, that authorization and signature are present, that the value
\* is present and value, validAfter and validBefore convert to big
\* integers, and that the signature parses; when one fails the result is
\* success=false with the reason of the earliest failing check, the chain
\* client is never called, and a conversion or signature failure keeps the
\* payer.
EarliestFailingSettleCheck ==
    CASE ~settlementWallet -> 1
      [] ~Auth.present \/ payload.signature.kind = "absent" -> 2
      [] ~Truthy(Auth.value) -> 3
      [] \/ ~BigIntOf(Auth.value).ok
         \/ ~BigIntOrZero(Auth.validAfter).ok
         \/ ~BigIntOrZero(Auth.validBefore).ok -> 4
      [] payload.signature.kind # "ecdsa" -> 5
      [] OTHER -> 0

SettleCheckOfReason(reason) ==
    CASE reason = WalletNotConfigured -> 1
      [] reason = MissingSettleData -> 2
      [] reason = MissingValue -> 3
      [] reason = InvalidValueFormat -> 4
      [] reason = InvalidSignatureFormat -> 5
      [] OTHER -> 0

C28_SettleChecksInOrder ==
    (LocalSettleDone /\ payload.present) =>
        /\ EarliestFailingSettleCheck # 0 =>
              /\ result.kind = "SettlementResult"
              /\ ~result.success
              /\ SettleCheckOfReason(result.errorReason) = EarliestFailingSettleCheck
              /\ chain = "none"
              /\ mode = "direct" => submissions = 0
              /\ EarliestFailingSettleCheck \in {4, 5} => result.payer = Auth.from
        /\ EarliestFailingSettleCheck = 0 => chain # "none"

\* C28 witness: a value that does not convert and a signature that does not
\* parse: the conversion failure is reported, with the payer.
C28_Witness ==
    /\ LocalSettleDone
    /\ settlementWallet
    /\ Auth.present
    /\ Truthy(Auth.value) /\ ~BigIntOf(Auth.value).ok
    /\ payload.signature.kind = "malformed"
    /\ result.errorReason = InvalidValueFormat
    /\ result.payer = Auth.from
    /\ chain = "none"

\* C29: an error the chain client throws during settlement is given the
\* reason of the first cause it matches, in the order insufficient funds,
\* nonce conflict, contract revert, user rejected, network error, and its
\* raw message if it matches none; the five reasons are pairwise distinct;
\* whatever the cause, the call ends there with success=false and nothing
\* more is submitted.
MatchesCause(e, k) ==
    CASE k = 1 -> "insufficient funds" \in e.includes
      [] k = 2 -> "nonce" \in e.includes
      [] k = 3 -> "revert" \in e.includes \/ e.reason
      [] k = 4 -> e.code = "ACTION_REJECTED"
      [] k = 5 -> e.code = "NETWORK_ERROR"
      [] OTHER -> TRUE

FirstCause(e) == CHOOSE k \in 1..6 : MatchesCause(e, k) /\ \A j \in 1..(k - 1) : ~MatchesCause(e, j)

ReasonOfCause(k) ==
    CASE k = 1 -> InsufficientFunds
      [] k = 2 -> NonceError
      [] k = 3 -> ContractRevert
      [] k = 4 -> Rejected
      [] k = 5 -> NetworkError
      [] OTHER -> RawMessage

ChainClientThrew == SettleDone /\ chain \in {"send-threw", "wait-threw"}

C29_ErrorClassifiedByFirstCause ==
    /\ Cardinality({ReasonOfCause(k) : k \in 1..5}) = 5
    /\ ChainClientThrew =>
          /\ error # NoError
          /\ result.kind = "SettlementResult"
          /\ ~result.success
          /\ result.errorReason = ReasonOfCause(FirstCause(error))
          /\ mode = "direct" =>
                submissions = IF chain = "send-threw" THEN 0 ELSE 1

\* C29 witness: an error that speaks of insufficient funds and of a revert
\* is reported as insufficient funds.
C29_Witness ==
    /\ ChainClientThrew
    /\ chain = "send-threw"
    /\ MatchesCause(error, 1) /\ MatchesCause(error, 3)
    /\ result.errorReason = InsufficientFunds

\* C30: verify and settle leave the configuration of the engine unchanged:
\* whatever calls have run, successful or failed, delegated or local, the
\* payment requirement is the one the constructor built (scheme 'exact',
\* the network, asset, payee, amount and resource of the options, 600 s
\* timeout, asset name and version '2') and the mode is the one it
\* selected; no step changes either.
ConfigurationAsConstructed ==
    /\ engine.kind = "engine"
    /\ engine.requirements = requirements
    /\ engine.requirements.scheme = "exact"
    /\ engine.requirements.maxTimeoutSeconds = 600
    /\ engine.requirements.network = options.network
    /\ engine.requirements.payTo = options.payToAddress
    /\ engine.requirements.extra.version = "2"
    /\ mode = engine.mode

C30_ConfigurationUnchanged ==
    /\ []ConfigurationAsConstructed
    /\ [][engine' = engine /\ mode' = mode /\ options' = options]_vars

\* C30 witness: the engine is idle again after a settlement on chain.
C30_Witness ==
    /\ pc = "idle"
    /\ usedNonces # {}
    /\ ConfigurationAsConstructed

\* C31: verification has no settlement side effect: during a verify call,
\* in either mode and whatever its outcome, the engine submits nothing on
\* chain, the chain client is never called and no nonce is consumed; in
\* direct mode, where only the local verifier runs, no network call is made
\* at all.
C31_VerifyDoesNotSettle ==
    /\ [](op = "verify" =>
            /\ pc \in {"verify-delegated", "done"}
            /\ submissions = 0
            /\ chain = "none"
            /\ error = NoError
            /\ mode = "direct" => (delegate = "none" /\ timer = "off"
                                    /\ response = NoResult))
    /\ [][op' = "verify" =>
            /\ usedNonces' = usedNonces
            /\ txCount' = txCount
            /\ submissions' = 0]_vars

\* C31 witness: a payload verified valid in direct mode after an earlier
\* settlement; nothing was submitted for it.
C31_Witness ==
    /\ op = "verify" /\ pc = "done"
    /\ mode = "direct"
    /\ result.kind = "VerifyResult" /\ result.isValid
    /\ usedNonces # {}
    /\ submissions = 0

\* C32: a request to a paid endpoint with no payment payload, or whose
\* payment status is not 'payment-submitted', is answered 402 with the
\* engine's payment requirement, and no verification, paid work or
\* settlement is performed for it; a request whose verification is invalid
\* is answered 402 with the failure reason, with no paid work and no
\* settlement.
WithoutPayment ==
    /\ request.pc # "none"
    /\ \/ ~request.body.payment.present
       \/ request.body.paymentStatus # PaymentSubmitted

VerifiedInvalid ==
    \E i \in DOMAIN request.events : request.events[i] = "invalid"

C32_NoPaymentNoService ==
    /\ WithoutPayment =>
          /\ request.pc = "responded"
          /\ request.status = 402
          /\ request.answer.kind = "payment-required"
          /\ request.answer.accepts = <<engine.requirements>>
          /\ request.events = <<>>
          /\ op = "none"
    /\ VerifiedInvalid =>
          /\ request.pc = "responded"
          /\ request.status = 402
          /\ request.answer.kind = "failure"
          /\ request.answer.error # "undefined"
          /\ request.events = <<"verify", "invalid">>
          /\ op = "none"

\* C33: once verification was valid and the paid work has completed, the
\* handler answers 200 with success=true whatever the settlement outcome:
\* a settlement with success=false does not turn the response into a
\* failure, and the work delivered stays delivered.
WorkDelivered ==
    \E i \in DOMAIN request.events : request.events[i] = "work"

C33_SettlementNeverFailsRequest ==
    WorkDelivered =>
        /\ request.events = <<"verify", "valid", "work", "settle">>
        /\ request.pc \in {"settling", "responded"}
        /\ request.pc = "responded" =>
              /\ request.status = 200
              /\ request.answer.kind = "work"
              /\ request.answer.success

\* C33 witness: the settlement failed and the request was answered 200.
C33_Witness ==
    /\ WorkDelivered
    /\ request.pc = "responded"
    /\ request.status = 200
    /\ request.answer.success
    /\ ~request.answer.settlement

C35_SubmitsAuthorizationAsSigned ==
    (op = "settle" /\ path = "local") =>
        /\ sent # NoCall =>
              /\ sent.contract = requirements.asset
              /\ sent.from = Auth.from /\ sent.to = Auth.to
              /\ sent.value = BigIntOf(Auth.value).n
              /\ sent.validAfter = BigIntOf(Auth.validAfter).n
              /\ sent.validBefore = BigIntOf(Auth.validBefore).n
              /\ sent.nonce = Auth.nonce
              /\ sent.signature = payload.signature
        /\ sent # NoCall <=> (pc = "waiting" \/ chain \in {"success", "reverted", "wait-threw"})
        /\ (pc = "done" /\ payload.present /\ EarliestFailingSettleCheck = 0)
              => chain # "none"

\* C35 witness: an authorization of 11 units for a requirement of 10 was
\* settled: 11 units were transferred.
C35_Witness ==
    /\ SettleDone /\ path = "local"
    /\ result.success
    /\ ~FailsRecipient /\ SignedByDeclaredPayer
    /\ BigIntOf(requirements.maxAmountRequired).n = 10
    /\ sent # NoCall
    /\ sent.value = 11

====
